---- MODULE Spec2Model ----
(***************************************************************************)
(* Temporal-table synchronisation (TemporalTable in src/ttable.py).        *)
(*                                                                         *)
(* One run of TemporalTable.run reads every stored record into a cache,    *)
(* streams the source rows through _log_changes, and closes the records    *)
(* collected in obsolete_ids.  The target table is the sequence `table`    *)
(* of stored records in id order; the sink assigns ids 1, 2, 3, ...        *)
(* Every run is made by a new task object, on the asof date after the      *)
(* previous run's, or repeats the previous run's source on the same date.  *)
(* The first run finds a database without the table (has_table is FALSE):  *)
(* create_table makes it and commits a special row into it before the      *)
(* run's own transaction begins.                                           *)
(*                                                                         *)
(* Python dicts (rows, keycache, idcache, seenkeys) are ordered mappings:  *)
(* sequences of <<key, value>> pairs with pairwise distinct keys.          *)
(* Python values are records [t, s, n]: t is the type tag, s the text of   *)
(* a str or bytes value, n the number of an int or date value.             *)
(* hashlib's SHA-256 is taken to be collision free: the digest of a byte   *)
(* stream is modelled by the tagged byte stream itself.                    *)
(*                                                                         *)
(* The module also holds three small models of the library functions next  *)
(* to the temporal table: pandasio.to_sql (SpecSql), KeyChain (SpecKc) and *)
(* pdschema.uniquify (SpecUq).  Each has variables of its own, which the   *)
(* other specifications leave at their idle values.                        *)
(*                                                                         *)
(* The variant of the task in src/luigi/ttable.py is modelled by SpecLuigi *)
(* (its run) and SpecLuigiHash (its _hash): it reads only the current      *)
(* records into the cache, handles the source chunk by chunk, and hashes   *)
(* the columns in the iteration order of a set, kept in iter_order.        *)
(***************************************************************************)
EXTENDS Integers, Sequences, FiniteSets, TLC

(* ---- bounds ----------------------------------------------------------- *)
MaxRuns == 3          \* runs of TemporalTable.run in one behaviour
MaxTotal == 3         \* source rows over all runs that are not repetitions
ChunkSize == 2        \* the subclass's chunksize
MaxPad == 1           \* trailing blanks two values may differ in
MaxCpu == 2           \* multiprocessing.cpu_count() is in 1..MaxCpu
KcMaxOps == 3         \* calls made on one KeyChain object
MaxLen == 3           \* length of the list handed to pdschema.uniquify

(* ---- program constants ------------------------------------------------ *)
enddate == 29991231   \* date(2999, 12, 31) as yyyymmdd
min_length == 1000    \* pandasio.to_sql: frames up to this length go directly
initial_chunksize == 100  \* pandasio.to_sql: rows of the table-creating write

(* ---- Python values ---------------------------------------------------- *)
PyStrV(x) == [t |-> "str", s |-> x, n |-> 0]
PyBytesV(x) == [t |-> "bytes", s |-> x, n |-> 0]
PyIntV(i) == [t |-> "int", s |-> "", n |-> i]
PyDateV(d) == [t |-> "date", s |-> "", n |-> d]
PyNone == [t |-> "none", s |-> "", n |-> 0]

Pad2(i) == IF i < 10 THEN "0" \o ToString(i) ELSE ToString(i)

\* datetime.date.__str__: ISO format yyyy-mm-dd
IsoDate(d) ==
    ToString(d \div 10000) \o "-" \o Pad2((d \div 100) % 100) \o "-" \o Pad2(d % 100)

\* str(value) followed by .encode('latin-1'); the text is Latin-1 here, one
\* byte a character, so the encoding keeps it.
str(v) ==
    CASE v.t = "str" -> v.s
      [] v.t = "int" -> ToString(v.n)
      [] v.t = "date" -> IsoDate(v.n)
      [] v.t = "none" -> "None"
      [] OTHER -> v.s

(* ---- ordered mappings (dict) ------------------------------------------ *)
keys(d) == [i \in 1..Len(d) |-> d[i][1]]

Has(d, key) == \E i \in 1..Len(d) : d[i][1] = key

Get(d, key) == d[CHOOSE i \in 1..Len(d) : d[i][1] = key][2]

\* d[key] = value: the key keeps its position when it is already present
Put(d, key, value) ==
    IF Has(d, key)
    THEN [i \in 1..Len(d) |-> IF d[i][1] = key THEN <<key, value>> ELSE d[i]]
    ELSE Append(d, <<key, value>>)

(* ---- columns ---------------------------------------------------------- *)
natural_key == <<"k">>
SysCols == {"id", "SysStartDate", "SysEndDate"}

\* table_bound.columns.keys() of the target
TableCols == <<"id", "k", "a", "b", "SysStartDate", "SysEndDate">>

\* Python's order of the column names (code point order)
ColOrder == <<"SysEndDate", "SysStartDate", "a", "b", "id", "k">>

sorted(cols) ==
    SelectSeq(ColOrder, LAMBDA c : \E i \in 1..Len(cols) : cols[i] = c)

(* ---- Row Hasher ------------------------------------------------------- *)
RECURSIVE update(_, _)
\* m.update(value) for each value in turn: the stream fed to the digest
update(m, values) ==
    IF values = <<>> THEN m
    ELSE LET value == Head(values)
             bytes == IF value.t = "bytes" THEN value.s ELSE str(value)
         IN update(m \o bytes, Tail(values))

hexdigest(m) == <<"sha256", m>>

\* _hash without the exclusion of the system columns
HashAllColumns(row) ==
    LET cols == sorted(keys(row))
        values == [i \in 1..Len(cols) |-> Get(row, cols[i])]
    IN hexdigest(update("", values))

\* _hash over the columns in the row's own order
HashUnsorted(row) ==
    LET cols == SelectSeq(keys(row), LAMBDA c : c \notin SysCols)
        values == [i \in 1..Len(cols) |-> Get(row, cols[i])]
    IN hexdigest(update("", values))

_hash(row) ==
    LET cols == SelectSeq(sorted(keys(row)), LAMBDA c : c \notin SysCols)
        values == [i \in 1..Len(cols) |-> Get(row, cols[i])]
    IN hexdigest(update("", values))

_make_search_tuple(row) == [i \in 1..Len(natural_key) |-> Get(row, natural_key[i])]

(* ---- source rows ------------------------------------------------------ *)
KeyVals == {"x", "y"}
AVals == {"a", "a "}
BVals == {"b", " b"}

\* table_bound.columns.keys() of the input table, whose column order is
\* not the target's
srccols == <<"b", "k", "a">>

\* the rows of the input table: key x with three payloads, of which two
\* differ in a trailing blank and two in where the blank stands, key y with one
RowData ==
    {r \in [k : KeyVals, a : AVals, b : BVals] :
        IF r.k = "x" THEN ~(r.a = "a " /\ r.b = " b") ELSE r.a = "a" /\ r.b = "b"}

\* a row as rows() yields it: dict(zip(table_bound.columns.keys(), row))
SrcRow(cols, data) == [i \in 1..Len(cols) |-> <<cols[i], PyStrV(data[cols[i]])>>]

\* the asof dates 2024-01-01, 2024-01-02, ... as yyyymmdd
AsofDate(i) == 20240100 + i

(* ---- state ------------------------------------------------------------ *)
VARIABLES
    table,          \* the target: sequence of stored rows (ordered mappings)
    has_table,      \* the database holds the target table
    keycache,       \* self.keycache: search tuple -> digest
    idcache,        \* self.idcache: search tuple -> id
    seenkeys,       \* self.seenkeys: search tuple -> id
    obsolete_ids,   \* self.obsolete_ids
    new_rows,       \* _log_changes: pending rows of new keys
    modified_rows,  \* _log_changes: pending rows of modified keys
    pc,             \* position in run()
    asof,           \* self.asof of the current run (index of the date)
    obsolete_deleted_rows,  \* class attribute of the subclass
    source,         \* rows the source has yielded in this run
    classes,        \* classification of each row of `source`
    batches,        \* insert batches handed to the sink in this run
    closes,         \* id lists handed to _set_as_obsolete in this run
    table0,         \* the target when the run began
    cache0,         \* idcache right after the cache build
    runs,           \* runs started so far
    total,          \* freshly chosen source rows so far
    replay,         \* this run repeats the previous run's source and asof
    prevsource,     \* the source of the previous run
    hrow1, hrow2,   \* Row Hasher inputs
    hdig1, hdig2,   \* Row Hasher outputs
    iter_order,     \* luigi variant: column lists -> iteration order of their set
    err,            \* the step of this run that raised, "none" if none did
    tpc,            \* pandasio.to_sql: position of the calling process
    df_len,         \* pandasio.to_sql: len(df); the rows are 1..df_len
    if_exists,      \* pandasio.to_sql: kwargs['if_exists'], "absent" if not given
    num_workers,    \* pandasio.to_sql: multiprocessing.cpu_count()
    job_queue,      \* pandasio.to_sql: the JoinableQueue, Tasks and None pills
    unfinished,     \* pandasio.to_sql: put() not yet answered by task_done()
    workers,        \* pandasio.to_sql: what each Worker process holds
    writes,         \* pandasio.to_sql: the DataFrame.to_sql calls made so far
    _entries,       \* KeyChain: entry name -> (field -> value)
    dirty,          \* KeyChain: self.dirty
    disk,           \* KeyChain: what the keychain file holds
    kc_call,        \* KeyChain: the last call made, with its arguments
    kc_before,      \* KeyChain: _entries before the last call
    kc_ops,         \* KeyChain: calls made so far
    values,         \* uniquify: the argument
    newvalues,      \* uniquify: the list built so far
    uq_seen         \* uniquify: occurrences counted so far, per value

runvars == <<table, has_table, keycache, idcache, seenkeys, obsolete_ids, new_rows,
             modified_rows, pc, asof, obsolete_deleted_rows, source,
             classes, batches, closes, table0, cache0, runs, total, replay,
             prevsource>>
hashvars == <<hrow1, hrow2, hdig1, hdig2, iter_order>>
sqlvars == <<tpc, df_len, if_exists, num_workers, job_queue, unfinished,
             workers, writes>>
kcvars == <<_entries, dirty, disk, kc_call, kc_before, kc_ops>>
uqvars == <<values, newvalues, uq_seen>>
libvars == <<sqlvars, kcvars, uqvars>>
vars == <<runvars, hashvars, err, libvars>>

(* ---- Sink Adapter ----------------------------------------------------- *)
\* the row as the target stores it; the sink assigns the id
StoredRow(id, row) ==
    [i \in 1..Len(TableCols) |->
        IF TableCols[i] = "id" THEN <<"id", PyIntV(id)>>
        ELSE <<TableCols[i], Get(row, TableCols[i])>>]

RECURSIVE _insert(_, _)
_insert(tbl, ins_rows) ==
    IF ins_rows = <<>> THEN tbl
    ELSE _insert(Append(tbl, StoredRow(Len(tbl) + 1, Head(ins_rows))), Tail(ins_rows))

\* the value create_table gives the TEXT columns of the row it inserts; the
\* source writes its third letter with a tilde (a-tilde, one Latin-1 byte),
\* the strings of this module are kept to ASCII
NotInformed == "#Nao informado"

\* the row create_table inserts into the table it has just made: every TEXT
\* column bound to the predefined value, the two dates left NULL
SpecialRow(id) ==
    [i \in 1..Len(TableCols) |->
        IF TableCols[i] = "id" THEN <<"id", PyIntV(id)>>
        ELSE IF TableCols[i] \in SysCols THEN <<TableCols[i], PyNone>>
        ELSE <<TableCols[i], PyStrV(NotInformed)>>]

\* create_table: a database without the table gets the table and the special
\* row, committed by create_table's own transaction; a table that is there
\* is reflected and left as it is.  The columns are taken to be declared
\* with their types and the statements to succeed.  construct_sqla_columns
\* adds the id and the two date columns to self.columns in place; the list is
\* read by create_table only, and only on a database without the table, which
\* a task meets once.
create_table(exists, tbl) ==
    IF exists THEN tbl ELSE Append(tbl, SpecialRow(Len(tbl) + 1))

\* the update closing every row that has the natural key of a row of ids
SetObsoleteByKey(tbl, ids, d) ==
    [i \in 1..Len(tbl) |->
        IF \E j \in 1..Len(ids) : Get(tbl[i], "k") = Get(tbl[ids[j]], "k")
        THEN Put(tbl[i], "SysEndDate", PyDateV(d))
        ELSE tbl[i]]

\* the update closing the rows on the day after asof
SetObsoleteNextDay(tbl, ids, d) ==
    [i \in 1..Len(tbl) |->
        IF \E j \in 1..Len(ids) : PyIntV(ids[j]) = Get(tbl[i], "id")
        THEN Put(tbl[i], "SysEndDate", PyDateV(d + 1))
        ELSE tbl[i]]

\* UPDATE ... SET SysEndDate = asof WHERE id = :_id, for every id of ids
_set_as_obsolete(tbl, ids, d) ==
    [i \in 1..Len(tbl) |->
        IF \E j \in 1..Len(ids) : PyIntV(ids[j]) = Get(tbl[i], "id")
        THEN Put(tbl[i], "SysEndDate", PyDateV(d))
        ELSE tbl[i]]

(* ---- Version Cache ---------------------------------------------------- *)
RECURSIVE ScanKeys(_, _)
\* the loop of _prefill_cache on self.keycache
ScanKeys(cache, rows) ==
    IF rows = <<>> THEN cache
    ELSE LET row_dict == Head(rows)
         IN ScanKeys(Put(cache, _make_search_tuple(row_dict), _hash(row_dict)), Tail(rows))

RECURSIVE ScanIds(_, _)
\* the loop of _prefill_cache on self.idcache
ScanIds(cache, rows) ==
    IF rows = <<>> THEN cache
    ELSE LET row_dict == Head(rows)
         IN ScanIds(Put(cache, _make_search_tuple(row_dict), Get(row_dict, "id").n), Tail(rows))

RECURSIVE Orders(_)
\* the orders in which the members of S can come
Orders(S) ==
    IF S = {} THEN {<<>>}
    ELSE UNION {{<<x>> \o p : p \in Orders(S \ {x})} : x \in S}

\* what a query without ORDER BY can yield of rows: the database returns
\* them in an order of its own choosing
Unordered(rows) ==
    {[i \in 1..Len(rows) |-> rows[p[i]]] : p \in Orders(1..Len(rows))}

\* the rows session.query(self.table_bound) yields: every stored row, closed
\* ones included, in whatever order the database returns them
QueryAll(tbl) == Unordered(tbl)

(* ---- Obsolescence Sweep ----------------------------------------------- *)
RECURSIVE UnseenAll(_, _, _)
\* the sweep without the membership test: every cached id is appended
UnseenAll(ids, cache, seen) ==
    IF cache = <<>> THEN ids
    ELSE UnseenAll(Append(ids, Head(cache)[2]), Tail(cache), seen)

RECURSIVE UnseenInverted(_, _, _)
\* the sweep with the membership test inverted
UnseenInverted(ids, cache, seen) ==
    IF cache = <<>> THEN ids
    ELSE UnseenInverted(IF Has(seen, Head(cache)[1]) THEN Append(ids, Head(cache)[2]) ELSE ids,
                        Tail(cache), seen)

RECURSIVE Unseen(_, _, _)
\* for key, id in self.idcache.items(): if key not in self.seenkeys: append
Unseen(ids, cache, seen) ==
    IF cache = <<>> THEN ids
    ELSE Unseen(IF Has(seen, Head(cache)[1]) THEN ids ELSE Append(ids, Head(cache)[2]),
                Tail(cache), seen)

(* ---- initial state ---------------------------------------------------- *)
NoRow == <<>>

HashIdle ==
    /\ hrow1 = NoRow /\ hrow2 = NoRow /\ hdig1 = <<>> /\ hdig2 = <<>>
    /\ iter_order = <<>>

\* no call of pandasio.to_sql
SqlIdle ==
    /\ tpc = "idle" /\ df_len = 0 /\ if_exists = "absent" /\ num_workers = 0
    /\ job_queue = <<>> /\ unfinished = 0 /\ workers = <<>> /\ writes = <<>>

\* a call: its name, the entry name and the keyword arguments
Call(op, name, data) == [op |-> op, name |-> name, data |-> data]

NoFile == <<"nofile", <<>>>>

\* no KeyChain object
KcIdle ==
    /\ _entries = <<>> /\ dirty = FALSE /\ disk = NoFile
    /\ kc_call = Call("none", "", <<>>) /\ kc_before = <<>> /\ kc_ops = 0

\* no call of pdschema.uniquify
UqIdle == values = <<>> /\ newvalues = <<"idle">> /\ uq_seen = <<>>

LibIdle == SqlIdle /\ KcIdle /\ UqIdle

\* no TemporalTable task
RunIdle ==
    /\ table = <<>>
    /\ has_table = FALSE
    /\ keycache = <<>> /\ idcache = <<>> /\ seenkeys = <<>>
    /\ obsolete_ids = <<>>
    /\ new_rows = <<>> /\ modified_rows = <<>>
    /\ pc = "idle"
    /\ asof = 1
    /\ obsolete_deleted_rows = TRUE
    /\ source = <<>> /\ classes = <<>> /\ batches = <<>> /\ closes = <<>>
    /\ table0 = <<>> /\ cache0 = <<>>
    /\ runs = 0 /\ total = 0
    /\ replay = FALSE
    /\ prevsource = <<>>
    /\ err = "none"

Init ==
    /\ table = <<>>
    /\ has_table = FALSE
    /\ keycache = <<>> /\ idcache = <<>> /\ seenkeys = <<>>
    /\ obsolete_ids = <<>>
    /\ new_rows = <<>> /\ modified_rows = <<>>
    /\ pc = "new"
    /\ asof = 1
    /\ obsolete_deleted_rows \in BOOLEAN
    /\ source = <<>> /\ classes = <<>> /\ batches = <<>> /\ closes = <<>>
    /\ table0 = <<>> /\ cache0 = <<>>
    /\ runs = 1 /\ total = 0
    /\ replay = FALSE
    /\ prevsource = <<>>
    /\ err = "none"
    /\ HashIdle
    /\ LibIdle

(* ---- run() ------------------------------------------------------------ *)
\* run(), up to and including self._prefill_cache(conn): create_table in a
\* transaction of its own, then the cache build in the run's transaction;
\* table0 is the target as the run's transaction finds it
PrefillCache ==
    /\ pc = "new"
    /\ table' = create_table(has_table, table)
    /\ has_table' = TRUE
    /\ table0' = table'
    /\ \E rows \in QueryAll(table') :
          /\ keycache' = ScanKeys(keycache, rows)
          /\ idcache' = ScanIds(idcache, rows)
    /\ cache0' = idcache'
    /\ pc' = "rows"
    /\ UNCHANGED <<seenkeys, obsolete_ids, new_rows, modified_rows, asof,
                   obsolete_deleted_rows, source, classes, batches,
                   closes, runs, total, replay, prevsource>>
    /\ UNCHANGED <<hashvars, err, libvars>>

\* a queue flushed only when it has grown past chunksize
FullLate(queue) == Len(queue) > ChunkSize

\* a queue flushed when it holds twice chunksize
FullDouble(queue) == Len(queue) >= 2 * ChunkSize

\* the test of a queue after each row: len(...) >= self.chunksize
Full(queue) == Len(queue) >= ChunkSize

\* one iteration of the loop of _log_changes on the row the source yields
LogRow(row0) ==
    LET row == Put(Put(row0, "SysStartDate", PyDateV(AsofDate(asof))),
                   "SysEndDate", PyDateV(enddate))
        searchtuple == _make_search_tuple(row)
        isnew == ~Has(idcache, searchtuple)
        ismod == ~isnew /\ Get(keycache, searchtuple) # _hash(row)
        new1 == IF isnew THEN Append(new_rows, row) ELSE new_rows
        mod1 == IF ismod THEN Append(modified_rows, row) ELSE modified_rows
        flushnew == Full(new1)
        flushmod == Full(mod1)
        table1 == IF flushnew THEN _insert(table, new1) ELSE table
        table2 == IF flushmod THEN _insert(table1, mod1) ELSE table1
        batches1 == IF flushnew THEN Append(batches, new1) ELSE batches
        batches2 == IF flushmod THEN Append(batches1, mod1) ELSE batches1
    IN /\ obsolete_ids' = IF ismod THEN Append(obsolete_ids, Get(idcache, searchtuple))
                          ELSE obsolete_ids
       /\ seenkeys' = IF isnew THEN seenkeys
                      ELSE Put(seenkeys, searchtuple, Get(idcache, searchtuple))
       /\ new_rows' = IF flushnew THEN <<>> ELSE new1
       /\ modified_rows' = IF flushmod THEN <<>> ELSE mod1
       /\ table' = table2
       /\ batches' = batches2
       /\ source' = Append(source, row0)
       /\ classes' = Append(classes, IF isnew THEN "New"
                                     ELSE IF ismod THEN "Modified" ELSE "Unchanged")

\* the row step if _log_changes stored the digest of the row it has just
\* compared in keycache
NextRowCaching ==
    /\ pc = "rows"
    /\ ~replay
    /\ total < MaxTotal
    /\ \E data \in RowData :
          LET row0 == SrcRow(srccols, data)
              searchtuple == _make_search_tuple(row0)
          IN /\ LogRow(row0)
             /\ keycache' = IF Has(idcache, searchtuple)
                            THEN Put(keycache, searchtuple, _hash(row0))
                            ELSE keycache
    /\ total' = total + 1
    /\ UNCHANGED <<has_table, idcache, pc, asof, obsolete_deleted_rows,
                   closes, table0, cache0, runs, replay, prevsource>>
    /\ UNCHANGED <<hashvars, err, libvars>>

\* the source yields a row nobody has fixed in advance
NextRow ==
    /\ pc = "rows"
    /\ ~replay
    /\ total < MaxTotal
    /\ \E data \in RowData : LogRow(SrcRow(srccols, data))
    /\ total' = total + 1
    /\ UNCHANGED <<has_table, keycache, idcache, pc, asof, obsolete_deleted_rows,
                   closes, table0, cache0, runs, replay, prevsource>>
    /\ UNCHANGED <<hashvars, err, libvars>>

\* the source yields the row it yielded at this position in the previous run
ReplayRow ==
    /\ pc = "rows"
    /\ replay
    /\ Len(source) < Len(prevsource)
    /\ LogRow(prevsource[Len(source) + 1])
    /\ UNCHANGED <<has_table, keycache, idcache, pc, asof, obsolete_deleted_rows,
                   closes, table0, cache0, runs, total, replay, prevsource>>
    /\ UNCHANGED <<hashvars, err, libvars>>

\* _log_changes returning at the end of the loop, the two queues left as
\* they are
EndOfStreamNoFlush ==
    /\ pc = "rows"
    /\ replay => Len(source) = Len(prevsource)
    /\ pc' = "sweep"
    /\ UNCHANGED <<table, has_table, keycache, idcache, seenkeys, obsolete_ids, new_rows,
                   modified_rows, asof, obsolete_deleted_rows, source, classes,
                   batches, closes, table0, cache0, runs, total, replay,
                   prevsource>>
    /\ UNCHANGED <<hashvars, err, libvars>>

\* the source is exhausted: the two flushes after the loop of _log_changes
EndOfStream ==
    /\ pc = "rows"
    /\ replay => Len(source) = Len(prevsource)
    /\ LET table1 == IF new_rows # <<>> THEN _insert(table, new_rows) ELSE table
           batches1 == IF new_rows # <<>> THEN Append(batches, new_rows) ELSE batches
       IN /\ table' = IF modified_rows # <<>> THEN _insert(table1, modified_rows)
                       ELSE table1
          /\ batches' = IF modified_rows # <<>> THEN Append(batches1, modified_rows)
                         ELSE batches1
    /\ new_rows' = <<>>
    /\ modified_rows' = <<>>
    /\ pc' = "sweep"
    /\ UNCHANGED <<keycache, idcache, seenkeys, obsolete_ids, asof,
                   obsolete_deleted_rows, source, classes, closes,
                   table0, cache0, runs, total, replay, prevsource>>
    /\ UNCHANGED <<hashvars, err, libvars>>
    /\ UNCHANGED has_table

\* run(): if self.obsolete_deleted_rows: ... self.obsolete_ids.append(id)
Sweep ==
    /\ pc = "sweep"
    /\ obsolete_ids' = IF obsolete_deleted_rows
                       THEN Unseen(obsolete_ids, idcache, seenkeys)
                       ELSE obsolete_ids
    /\ pc' = "close"
    /\ UNCHANGED <<table, has_table, keycache, idcache, seenkeys, new_rows, modified_rows,
                   asof, obsolete_deleted_rows, source, classes, batches,
                   closes, table0, cache0, runs, total, replay, prevsource>>
    /\ UNCHANGED <<hashvars, err, libvars>>

\* the close update issued whatever the length of the id list
CloseAlways ==
    /\ pc = "close"
    /\ table' = _set_as_obsolete(table, obsolete_ids, AsofDate(asof))
    /\ closes' = Append(closes, obsolete_ids)
    /\ pc' = "touch"
    /\ UNCHANGED <<keycache, idcache, seenkeys, obsolete_ids, new_rows,
                   modified_rows, asof, obsolete_deleted_rows, source,
                   classes, batches, table0, cache0, runs, total, replay,
                   prevsource>>
    /\ UNCHANGED <<hashvars, err, libvars>>
    /\ UNCHANGED has_table

\* the close update nested under the obsolete_deleted_rows test
CloseGated ==
    /\ pc = "close"
    /\ table' = IF obsolete_deleted_rows /\ obsolete_ids # <<>>
                THEN _set_as_obsolete(table, obsolete_ids, AsofDate(asof))
                ELSE table
    /\ closes' = IF obsolete_deleted_rows /\ obsolete_ids # <<>>
                 THEN Append(closes, obsolete_ids) ELSE closes
    /\ pc' = "touch"
    /\ UNCHANGED <<keycache, idcache, seenkeys, obsolete_ids, new_rows,
                   modified_rows, asof, obsolete_deleted_rows, source,
                   classes, batches, table0, cache0, runs, total, replay,
                   prevsource>>
    /\ UNCHANGED <<hashvars, err, libvars>>
    /\ UNCHANGED has_table

\* run(): if self.obsolete_ids: self._set_as_obsolete(...), then the commit
Close ==
    /\ pc = "close"
    /\ table' = IF obsolete_ids # <<>>
                THEN _set_as_obsolete(table, obsolete_ids, AsofDate(asof))
                ELSE table
    /\ closes' = IF obsolete_ids # <<>> THEN Append(closes, obsolete_ids) ELSE closes
    /\ pc' = "touch"
    /\ UNCHANGED <<keycache, idcache, seenkeys, obsolete_ids, new_rows,
                   modified_rows, asof, obsolete_deleted_rows, source,
                   classes, batches, table0, cache0, runs, total, replay,
                   prevsource>>
    /\ UNCHANGED <<hashvars, err, libvars>>
    /\ UNCHANGED has_table

\* run(): output.touch()
Touch ==
    /\ pc = "touch"
    /\ pc' = "done"
    /\ UNCHANGED <<table, has_table, keycache, idcache, seenkeys, obsolete_ids, new_rows,
                   modified_rows, asof, obsolete_deleted_rows, source,
                   classes, batches, closes, table0, cache0, runs, total, replay,
                   prevsource>>
    /\ UNCHANGED <<hashvars, err, libvars>>

\* __init__ of the task of the next run; the run is a repetition of the
\* previous one (same source, same asof) or a new one on the next asof date
NewTask ==
    /\ pc = "done"
    /\ runs < MaxRuns
    /\ keycache' = <<>> /\ idcache' = <<>> /\ seenkeys' = <<>>
    /\ obsolete_ids' = <<>>
    /\ \/ replay' = TRUE /\ asof' = asof
       \/ replay' = FALSE /\ asof' = asof + 1
    /\ prevsource' = source
    /\ source' = <<>> /\ classes' = <<>> /\ batches' = <<>> /\ closes' = <<>>
    /\ table0' = table
    /\ cache0' = <<>>
    /\ runs' = runs + 1
    /\ pc' = "new"
    /\ err' = "none"
    /\ UNCHANGED <<table, has_table, new_rows, modified_rows, obsolete_deleted_rows,
                   total>>
    /\ UNCHANGED <<hashvars, libvars>>

Next ==
    \/ PrefillCache
    \/ NextRow
    \/ ReplayRow
    \/ EndOfStream
    \/ Sweep
    \/ Close
    \/ Touch
    \/ NewTask

Spec == Init /\ [][Next]_vars

(* ---- runs on a target that holds a record ----------------------------- *)
\* the target after an earlier run, on the first asof date, has made the
\* table and inserted one row of key x, and with the flag enabled has closed
\* the special row; the task of the next run is new
InitBuilt ==
    /\ obsolete_deleted_rows \in BOOLEAN
    /\ LET made == create_table(FALSE, <<>>)
           filled == _insert(made, <<Put(Put(SrcRow(srccols, [k |-> "x", a |-> "a", b |-> "b"]),
                                             "SysStartDate", PyDateV(AsofDate(1))),
                                         "SysEndDate", PyDateV(enddate))>>)
       IN table = IF obsolete_deleted_rows
                  THEN _set_as_obsolete(filled, <<1>>, AsofDate(1))
                  ELSE filled
    /\ has_table = TRUE
    /\ keycache = <<>> /\ idcache = <<>> /\ seenkeys = <<>>
    /\ obsolete_ids = <<>>
    /\ new_rows = <<>> /\ modified_rows = <<>>
    /\ pc = "new"
    /\ asof = 2
    /\ source = <<>> /\ classes = <<>> /\ batches = <<>> /\ closes = <<>>
    /\ table0 = table /\ cache0 = <<>>
    /\ runs = 2 /\ total = 0
    /\ replay = FALSE
    /\ prevsource = <<>>
    /\ err = "none"
    /\ HashIdle
    /\ LibIdle

SpecBuilt == InitBuilt /\ [][Next]_vars

(* ---- errors inside run() ---------------------------------------------- *)
\* the input table's columns when it lacks the natural-key column
badcols == <<"b", "a">>

\* the exception handler that logs and goes on to the code after
\* _log_changes
Swallow == "sweep"

\* run() has no handler: an exception raised inside `with engine.begin()`
\* leaves run(), and neither the sweep, the close update nor output.touch()
\* is reached
Propagate == "failed"

\* a connection that commits every statement
NoRollback(tbl0, tbl) == tbl

\* `with engine.begin() as conn` left by an exception: the transaction of
\* conn is rolled back, the target is what it was when the run began
Rollback(tbl0, tbl) == tbl0

\* the loop of _log_changes if a row without the key column were passed over
SkipMalformed ==
    /\ pc = "rows"
    /\ ~replay
    /\ total < MaxTotal
    /\ \E data \in RowData :
          /\ source' = Append(source, SrcRow(badcols, data))
          /\ classes' = Append(classes, "Skipped")
    /\ total' = total + 1
    /\ err' = "key"
    /\ UNCHANGED <<table, has_table, keycache, idcache, seenkeys, obsolete_ids, new_rows,
                   modified_rows, pc, asof, obsolete_deleted_rows, batches,
                   closes, table0, cache0, runs, replay, prevsource>>
    /\ UNCHANGED <<hashvars, libvars>>

\* the source yields a row without the natural-key column:
\* _make_search_tuple raises KeyError
KeyErrorRow ==
    /\ pc = "rows"
    /\ ~replay
    /\ total < MaxTotal
    /\ \E data \in RowData :
          /\ source' = Append(source, SrcRow(badcols, data))
          /\ classes' = Append(classes, "KeyError")
    /\ total' = total + 1
    /\ err' = "key"
    /\ table' = Rollback(table0, table)
    /\ pc' = Propagate
    /\ UNCHANGED <<keycache, idcache, seenkeys, obsolete_ids, new_rows,
                   modified_rows, asof, obsolete_deleted_rows, batches,
                   closes, table0, cache0, runs, replay, prevsource>>
    /\ UNCHANGED <<hashvars, libvars>>
    /\ UNCHANGED has_table

\* one iteration of the loop of _log_changes in which a queue reaches
\* chunksize and conn.execute raises in self._insert
LogRowFails(row0) ==
    LET row == Put(Put(row0, "SysStartDate", PyDateV(AsofDate(asof))),
                   "SysEndDate", PyDateV(enddate))
        searchtuple == _make_search_tuple(row)
        isnew == ~Has(idcache, searchtuple)
        ismod == ~isnew /\ Get(keycache, searchtuple) # _hash(row)
        new1 == IF isnew THEN Append(new_rows, row) ELSE new_rows
        mod1 == IF ismod THEN Append(modified_rows, row) ELSE modified_rows
    IN /\ Full(new1) \/ Full(mod1)
       /\ obsolete_ids' = IF ismod THEN Append(obsolete_ids, Get(idcache, searchtuple))
                          ELSE obsolete_ids
       /\ seenkeys' = IF isnew THEN seenkeys
                      ELSE Put(seenkeys, searchtuple, Get(idcache, searchtuple))
       /\ new_rows' = new1
       /\ modified_rows' = mod1
       /\ source' = Append(source, row0)
       /\ classes' = Append(classes, IF isnew THEN "New"
                                     ELSE IF ismod THEN "Modified" ELSE "Unchanged")

InsertFailsInLoop ==
    /\ pc = "rows"
    /\ ~replay
    /\ total < MaxTotal
    /\ \E data \in RowData : LogRowFails(SrcRow(srccols, data))
    /\ total' = total + 1
    /\ err' = "insert"
    /\ table' = Rollback(table0, table)
    /\ pc' = Propagate
    /\ UNCHANGED <<keycache, idcache, asof, obsolete_deleted_rows, batches,
                   closes, table0, cache0, runs, replay, prevsource>>
    /\ UNCHANGED <<hashvars, libvars>>
    /\ UNCHANGED has_table

\* the source is exhausted and conn.execute raises in one of the two flushes
\* after the loop: in the first, or in the second after the first went through
InsertFailsAtEnd ==
    /\ pc = "rows"
    /\ replay => Len(source) = Len(prevsource)
    /\ \/ /\ new_rows # <<>>
          /\ batches' = batches
          /\ new_rows' = new_rows
       \/ /\ modified_rows # <<>>
          /\ batches' = IF new_rows # <<>> THEN Append(batches, new_rows) ELSE batches
          /\ new_rows' = <<>>
    /\ err' = "insert"
    /\ table' = Rollback(table0, table)
    /\ pc' = Propagate
    /\ UNCHANGED <<keycache, idcache, seenkeys, obsolete_ids, modified_rows,
                   asof, obsolete_deleted_rows, source, classes, closes,
                   table0, cache0, runs, total, replay, prevsource>>
    /\ UNCHANGED <<hashvars, libvars>>
    /\ UNCHANGED has_table

\* conn.execute raises in self._set_as_obsolete
CloseFails ==
    /\ pc = "close"
    /\ obsolete_ids # <<>>
    /\ err' = "close"
    /\ table' = Rollback(table0, table)
    /\ pc' = Propagate
    /\ UNCHANGED <<keycache, idcache, seenkeys, obsolete_ids, new_rows,
                   modified_rows, asof, obsolete_deleted_rows, source, classes,
                   batches, closes, table0, cache0, runs, total, replay,
                   prevsource>>
    /\ UNCHANGED <<hashvars, libvars>>
    /\ UNCHANGED has_table

NextFail ==
    \/ Next
    \/ KeyErrorRow
    \/ InsertFailsInLoop
    \/ InsertFailsAtEnd
    \/ CloseFails

\* the runs with the errors a row or the sink can raise; the run that raised
\* is over and its transaction undone
SpecFail == Init /\ [][NextFail]_vars

(* ---- run() called again on the same task object ----------------------- *)
\* run() of the task that has already run: nothing in run() clears
\* keycache, idcache, seenkeys or obsolete_ids, which __init__ alone sets
Rerun ==
    /\ pc = "done"
    /\ runs < MaxRuns
    /\ replay' = FALSE
    /\ prevsource' = source
    /\ source' = <<>> /\ classes' = <<>> /\ batches' = <<>> /\ closes' = <<>>
    /\ table0' = table
    /\ cache0' = <<>>
    /\ runs' = runs + 1
    /\ pc' = "new"
    /\ err' = "none"
    /\ UNCHANGED <<table, has_table, keycache, idcache, seenkeys, obsolete_ids, new_rows,
                   modified_rows, asof, obsolete_deleted_rows, total>>
    /\ UNCHANGED <<hashvars, libvars>>

NextReuse == Next \/ Rerun

SpecReuse == Init /\ [][NextReuse]_vars

(* ---- Row Hasher on its own -------------------------------------------- *)
\* column lists of the rows handed to _hash: source rows, stamped source
\* rows and stored rows, in several column orders
HashCols ==
    {<<"k", "a", "b">>, <<"b", "k", "a">>,
     <<"b", "k", "a", "SysStartDate", "SysEndDate">>,
     <<"id", "k", "a", "b", "SysStartDate", "SysEndDate">>,
     <<"SysEndDate", "b", "id", "a", "SysStartDate", "k">>}

HashVals(col) ==
    CASE col = "k" -> {PyStrV("x")}
      [] col = "a" -> {PyStrV("1"), PyIntV(1), PyStrV("a"), PyStrV("a ")}
      [] col = "b" -> {PyStrV("b"), PyBytesV("b"), PyNone, PyStrV(" b")}
      [] col = "id" -> {PyIntV(1), PyIntV(2)}
      [] col = "SysStartDate" -> {PyDateV(AsofDate(1))}
      [] OTHER -> {PyDateV(AsofDate(1)), PyDateV(enddate)}

HashRows ==
    UNION {{r \in [1..Len(cols) -> UNION {{<<c, v>> : v \in HashVals(c)} : c \in SysCols \cup {"k", "a", "b"}}] :
              \A i \in 1..Len(cols) : r[i][1] = cols[i]} : cols \in HashCols}

HashInit ==
    /\ table = <<>>
    /\ has_table = FALSE
    /\ keycache = <<>> /\ idcache = <<>> /\ seenkeys = <<>>
    /\ obsolete_ids = <<>>
    /\ new_rows = <<>> /\ modified_rows = <<>>
    /\ pc = "hash"
    /\ asof = 1
    /\ obsolete_deleted_rows = TRUE
    /\ source = <<>> /\ classes = <<>> /\ batches = <<>> /\ closes = <<>>
    /\ table0 = <<>> /\ cache0 = <<>>
    /\ runs = 0 /\ total = 0
    /\ replay = FALSE
    /\ prevsource = <<>>
    /\ err = "none"
    /\ hrow1 \in HashRows
    /\ hrow2 \in HashRows
    /\ hdig1 = <<>> /\ hdig2 = <<>>
    /\ iter_order = <<>>
    /\ LibIdle

HashFirst ==
    /\ pc = "hash"
    /\ hdig1 = <<>>
    /\ hdig1' = _hash(hrow1)
    /\ UNCHANGED <<hrow1, hrow2, hdig2, iter_order>>
    /\ UNCHANGED <<runvars, err, libvars>>

HashSecond ==
    /\ pc = "hash"
    /\ hdig2 = <<>>
    /\ hdig2' = _hash(hrow2)
    /\ UNCHANGED <<hrow1, hrow2, hdig1, iter_order>>
    /\ UNCHANGED <<runvars, err, libvars>>

HashNext == HashFirst \/ HashSecond

SpecHash == HashInit /\ [][HashNext]_vars

(* ---- pandasio.to_sql -------------------------------------------------- *)
\* lengths of the frame handed to to_sql, on both sides of min_length
FrameLens == {1, min_length, min_length + 1, min_length + 3}

IfExists == {"replace", "append", "absent"}

\* a Task: the frame slice it holds (rows lo..hi) and its if_exists
Task(lo, hi, mode) == [lo |-> lo, hi |-> hi, if_exists |-> mode]

\* the poison pill
None == [lo |-> 0, hi |-> 0, if_exists |-> "None"]

\* a Worker process that holds no Task: not started, blocked in
\* job_queue.get(), or returned from run()
NotStarted == [lo |-> 0, hi |-> 0, if_exists |-> "new"]
Waiting == [lo |-> 0, hi |-> 0, if_exists |-> "get"]
Exited == [lo |-> 0, hi |-> 0, if_exists |-> "exited"]

\* a Worker process ended by the exception its Task raised: the Task it held
Raised(task) == [lo |-> task.lo, hi |-> task.hi, if_exists |-> "raised"]

\* a Worker process whose call of its Task has returned and whose
\* task_done() is still to come
Called(task) == [lo |-> task.lo, hi |-> task.hi, if_exists |-> "called"]

\* a Worker process that has taken a pill and has not yet called task_done()
PillTaken == [lo |-> 0, hi |-> 0, if_exists |-> "pill"]

\* the Worker process holds a Task it has not called yet
HoldsTask(x) == x.lo > 0 /\ x.if_exists \notin {"raised", "called"}

\* np.array_split(df, k): chunk i of k, the first len(df) % k chunks one
\* row longer than the others
array_split(n, k, i) ==
    LET lo == (i - 1) * (n \div k) + (IF i - 1 < n % k THEN i - 1 ELSE n % k) + 1
        size == (n \div k) + (IF i <= n % k THEN 1 ELSE 0)
    IN <<lo, lo + size - 1>>

RECURSIVE RowCount(_, _)
\* how often row i is in the target table after the DataFrame.to_sql calls
\* ws on a table that did not exist: 'replace' drops what was written before
RowCount(ws, i) ==
    IF ws = <<>> THEN 0
    ELSE LET w == ws[Len(ws)]
             before == IF w.if_exists = "replace" THEN 0
                       ELSE RowCount(SubSeq(ws, 1, Len(ws) - 1), i)
         IN before + (IF w.lo <= i /\ i <= w.hi THEN 1 ELSE 0)

SqlInit ==
    /\ RunIdle
    /\ HashIdle
    /\ tpc = "start"
    /\ df_len \in FrameLens
    /\ if_exists \in IfExists
    /\ num_workers \in 1..MaxCpu
    /\ job_queue = <<>>
    /\ unfinished = 0
    /\ workers = [w \in 1..num_workers |-> NotStarted]
    /\ writes = <<>>
    /\ KcIdle
    /\ UqIdle

\* if len(df) <= min_length: df.to_sql(*args, **kwargs); return
DirectWrite ==
    /\ tpc = "start"
    /\ df_len <= min_length
    /\ writes' = Append(writes, Task(1, df_len, if_exists))
    /\ tpc' = "returned"
    /\ UNCHANGED <<df_len, if_exists, num_workers, job_queue, unfinished, workers>>
    /\ UNCHANGED <<runvars, hashvars, err, kcvars, uqvars>>

\* df.iloc[:initial_chunksize, :].to_sql(...), then the test of
\* kwargs['if_exists'], a KeyError when the caller gave none
InitialWrite ==
    /\ tpc = "start"
    /\ df_len > min_length
    /\ writes' = Append(writes, Task(1, initial_chunksize, if_exists))
    /\ tpc' = IF if_exists = "absent" THEN "raised" ELSE "spawn"
    /\ if_exists' = IF if_exists = "replace" THEN "append" ELSE if_exists
    /\ UNCHANGED <<df_len, num_workers, job_queue, unfinished, workers>>
    /\ UNCHANGED <<runvars, hashvars, err, kcvars, uqvars>>

\* one round of: for w in workers: w.start(); the started process waits in
\* get()
StartWorker ==
    /\ tpc = "spawn"
    /\ LET w == CHOOSE x \in 1..num_workers :
                    /\ workers[x] = NotStarted
                    /\ \A y \in 1..(x - 1) : workers[y] # NotStarted
       IN /\ workers' = [workers EXCEPT ![w] = Waiting]
          /\ tpc' = IF w = num_workers THEN "enqueue" ELSE "spawn"
    /\ UNCHANGED <<df_len, if_exists, num_workers, job_queue, unfinished, writes>>
    /\ UNCHANGED <<runvars, hashvars, err, kcvars, uqvars>>

\* one round of: for df_chunk in np.array_split(df, num_workers):
\*                   job_queue.put(Task(df_chunk, ...))
\* the chunks put so far are those waiting in the queue, those a worker holds
\* or has raised on, and those written
Enqueue ==
    /\ tpc = "enqueue"
    /\ LET held == {w \in 1..num_workers :
                       workers[w].lo > 0 /\ workers[w].if_exists # "called"}
           i == Len(job_queue) + Cardinality(held) + Len(writes)
           chunk == array_split(df_len, num_workers, i)
       IN /\ i <= num_workers
          /\ job_queue' = Append(job_queue, Task(chunk[1], chunk[2], if_exists))
          /\ unfinished' = unfinished + 1
          /\ tpc' = IF i = num_workers THEN "join" ELSE "enqueue"
    /\ UNCHANGED <<df_len, if_exists, num_workers, workers, writes>>
    /\ UNCHANGED <<runvars, hashvars, err, kcvars, uqvars>>

\* Worker.run: next_task = self.job_queue.get()
WorkerGet(w) ==
    /\ workers[w] = Waiting
    /\ job_queue # <<>>
    /\ job_queue' = Tail(job_queue)
    /\ workers' = [workers EXCEPT ![w] = IF Head(job_queue) = None THEN PillTaken
                                         ELSE Head(job_queue)]
    /\ UNCHANGED <<tpc, df_len, if_exists, num_workers, unfinished, writes>>
    /\ UNCHANGED <<runvars, hashvars, err, kcvars, uqvars>>

\* Worker.run, the pill: self.job_queue.task_done(); break; the process ends
WorkerStop(w) ==
    /\ workers[w] = PillTaken
    /\ unfinished' = unfinished - 1
    /\ workers' = [workers EXCEPT ![w] = Exited]
    /\ UNCHANGED <<tpc, df_len, if_exists, num_workers, job_queue, writes>>
    /\ UNCHANGED <<runvars, hashvars, err, kcvars, uqvars>>

\* Worker.run: result = next_task(), the write of the chunk
WorkerCall(w) ==
    /\ HoldsTask(workers[w])
    /\ writes' = Append(writes, workers[w])
    /\ workers' = [workers EXCEPT ![w] = Called(workers[w])]
    /\ UNCHANGED <<tpc, df_len, if_exists, num_workers, job_queue, unfinished>>
    /\ UNCHANGED <<runvars, hashvars, err, kcvars, uqvars>>

\* Worker.run: self.job_queue.task_done() after the call, and back to get()
WorkerTaskDone(w) ==
    /\ workers[w].if_exists = "called"
    /\ unfinished' = unfinished - 1
    /\ workers' = [workers EXCEPT ![w] = Waiting]
    /\ UNCHANGED <<tpc, df_len, if_exists, num_workers, job_queue, writes>>
    /\ UNCHANGED <<runvars, hashvars, err, kcvars, uqvars>>

\* Worker.run: next_task() raises, as DataFrame.to_sql does when the database
\* refuses the write; run() has no handler, so the process ends and
\* task_done() is not called
WorkerRaises(w) ==
    /\ HoldsTask(workers[w])
    /\ workers' = [workers EXCEPT ![w] = Raised(workers[w])]
    /\ UNCHANGED <<tpc, df_len, if_exists, num_workers, job_queue, unfinished, writes>>
    /\ UNCHANGED <<runvars, hashvars, err, kcvars, uqvars>>

\* a join() that does not wait
JoinNoWait ==
    /\ tpc = "join"
    /\ tpc' = "pills"
    /\ UNCHANGED <<df_len, if_exists, num_workers, job_queue, unfinished, workers, writes>>
    /\ UNCHANGED <<runvars, hashvars, err, kcvars, uqvars>>

\* job_queue.join(): returns when every put() has been answered by a
\* task_done()
Join ==
    /\ tpc = "join"
    /\ unfinished = 0
    /\ tpc' = "pills"
    /\ UNCHANGED <<df_len, if_exists, num_workers, job_queue, unfinished, workers, writes>>
    /\ UNCHANGED <<runvars, hashvars, err, kcvars, uqvars>>

\* one round of: for _ in range(num_workers): job_queue.put(None); to_sql
\* returns after the last round.  The pills put so far are those in the
\* queue and those the workers have taken.
PutPill ==
    /\ tpc = "pills"
    /\ LET inqueue == {j \in 1..Len(job_queue) : job_queue[j] = None}
           taken == {w \in 1..num_workers : workers[w] \in {PillTaken, Exited}}
           i == Cardinality(inqueue) + Cardinality(taken) + 1
       IN /\ i <= num_workers
          /\ tpc' = IF i = num_workers THEN "returned" ELSE "pills"
    /\ job_queue' = Append(job_queue, None)
    /\ unfinished' = unfinished + 1
    /\ UNCHANGED <<df_len, if_exists, num_workers, workers, writes>>
    /\ UNCHANGED <<runvars, hashvars, err, kcvars, uqvars>>

SqlNext ==
    \/ DirectWrite
    \/ InitialWrite
    \/ StartWorker
    \/ Enqueue
    \/ \E w \in 1..MaxCpu : w <= num_workers /\ WorkerGet(w)
    \/ \E w \in 1..MaxCpu : w <= num_workers /\ WorkerStop(w)
    \/ \E w \in 1..MaxCpu : w <= num_workers /\ WorkerCall(w)
    \/ \E w \in 1..MaxCpu : w <= num_workers /\ WorkerTaskDone(w)
    \/ \E w \in 1..MaxCpu : w <= num_workers /\ WorkerRaises(w)
    \/ Join
    \/ PutPill

SpecSql == SqlInit /\ [][SqlNext]_vars

\* the calling process and every Worker process keep running while they can
\* take a step: none of them is suspended for ever by the scheduler
SqlFair ==
    /\ WF_vars(DirectWrite \/ InitialWrite \/ StartWorker \/ Enqueue \/ Join \/ PutPill)
    /\ \A w \in 1..MaxCpu :
          WF_vars(w <= num_workers
                  /\ (WorkerGet(w) \/ WorkerStop(w) \/ WorkerCall(w)
                      \/ WorkerTaskDone(w) \/ WorkerRaises(w)))

SpecSqlLive == SqlInit /\ [][SqlNext]_vars /\ SqlFair

(* ---- KeyChain --------------------------------------------------------- *)
\* entry names, field names and field values of the calls
KcNames == {"SAP", "imap"}
KcFields == {"username", "password"}
KcValues == {"John", "en"}

\* the keyword arguments of a call of set: any fields, none included
KcData == UNION {[fs -> KcValues] : fs \in SUBSET KcFields}

\* dict.update: the fields of data replace or extend those of entry
dict_update(entry, data) ==
    [f \in DOMAIN entry \cup DOMAIN data |->
        IF f \in DOMAIN data THEN data[f] ELSE entry[f]]

\* self._entries[name] = value
dict_setitem(entries, name, value) ==
    [n \in DOMAIN entries \cup {name} |-> IF n = name THEN value ELSE entries[n]]

\* del self._entries[name]
dict_delitem(entries, name) == [n \in DOMAIN entries \ {name} |-> entries[n]]

\* _encrypt and _dump: the file holds the AES ciphertext of
\* json.dumps(self._entries)
Dumped(entries) == <<"aes", entries>>

\* KeyChain(path, password) with no file at path: _load raises IOError and
\* save() writes nothing, dirty being False
KcInit ==
    /\ RunIdle
    /\ HashIdle
    /\ SqlIdle
    /\ _entries = <<>>
    /\ dirty = FALSE
    /\ disk = NoFile
    /\ kc_call = Call("new", "", <<>>)
    /\ kc_before = <<>>
    /\ kc_ops = 0
    /\ UqIdle

\* set that stores the keyword arguments as the entry, whatever was there
KcSetReplace(name, data) ==
    /\ kc_call.op # "none"
    /\ kc_ops < KcMaxOps
    /\ _entries' = dict_setitem(_entries, name, data)
    /\ dirty' = TRUE
    /\ kc_call' = Call("set", name, data)
    /\ kc_before' = _entries
    /\ kc_ops' = kc_ops + 1
    /\ UNCHANGED disk
    /\ UNCHANGED <<runvars, hashvars, err, sqlvars, uqvars>>

\* KeyChain.set(name, **data)
KcSet(name, data) ==
    /\ kc_call.op # "none"
    /\ kc_ops < KcMaxOps
    /\ _entries' = IF name \in DOMAIN _entries
                   THEN dict_setitem(_entries, name, dict_update(_entries[name], data))
                   ELSE dict_setitem(_entries, name, data)
    /\ dirty' = TRUE
    /\ kc_call' = Call("set", name, data)
    /\ kc_before' = _entries
    /\ kc_ops' = kc_ops + 1
    /\ UNCHANGED disk
    /\ UNCHANGED <<runvars, hashvars, err, sqlvars, uqvars>>

\* KeyChain.__delitem__(name) of an entry that exists
KcDel(name) ==
    /\ kc_call.op # "none"
    /\ kc_ops < KcMaxOps
    /\ name \in DOMAIN _entries
    /\ _entries' = dict_delitem(_entries, name)
    /\ dirty' = TRUE
    /\ kc_call' = Call("del", name, <<>>)
    /\ kc_before' = _entries
    /\ kc_ops' = kc_ops + 1
    /\ UNCHANGED disk
    /\ UNCHANGED <<runvars, hashvars, err, sqlvars, uqvars>>

\* KeyChain.save() without a new password
KcSave ==
    /\ kc_call.op # "none"
    /\ kc_ops < KcMaxOps
    /\ disk' = IF dirty THEN Dumped(_entries) ELSE disk
    /\ kc_call' = Call("save", "", <<>>)
    /\ kc_before' = _entries
    /\ kc_ops' = kc_ops + 1
    /\ UNCHANGED <<_entries, dirty>>
    /\ UNCHANGED <<runvars, hashvars, err, sqlvars, uqvars>>

KcNext ==
    \/ \E name \in KcNames, data \in KcData : KcSet(name, data)
    \/ \E name \in KcNames : KcDel(name)
    \/ KcSave

SpecKc == KcInit /\ [][KcNext]_vars

(* ---- pdschema.uniquify ------------------------------------------------ *)
\* column names handed to uniquify
UqValues == {"A", "B", "A_2"}

UqLists == UNION {[1..n -> UqValues] : n \in 0..MaxLen}

\* '{}_{}'.format(value, n)
format(value, n) == value \o "_" \o ToString(n)

\* newvalues = list(); seen = defaultdict(int)
UqInit ==
    /\ RunIdle
    /\ HashIdle
    /\ SqlIdle
    /\ KcIdle
    /\ values \in UqLists
    /\ newvalues = <<>>
    /\ uq_seen = [v \in UqValues |-> 0]

\* one round of the loop of uniquify
UqStep ==
    /\ uq_seen # <<>>
    /\ Len(newvalues) < Len(values)
    /\ LET value == values[Len(newvalues) + 1]
           n == uq_seen[value] + 1
       IN /\ uq_seen' = [uq_seen EXCEPT ![value] = n]
          /\ newvalues' = Append(newvalues, IF n > 1 THEN format(value, n) ELSE value)
    /\ UNCHANGED values
    /\ UNCHANGED <<runvars, hashvars, err, sqlvars, kcvars>>

UqNext == UqStep

SpecUq == UqInit /\ [][UqNext]_vars

(* ---- vocabulary of the properties ------------------------------------- *)
\* the natural keys of the records a target can hold: those of the source rows
\* and that of create_table's special row
SearchTuples == {<<PyStrV(k)>> : k \in KeyVals \cup {NotInformed}}

IdOf(rec) == Get(rec, "id").n
StartOf(rec) == Get(rec, "SysStartDate").n
EndOf(rec) == Get(rec, "SysEndDate").n

\* the columns of a row that are not system columns, with their values
Payload(row) == {row[i] : i \in {j \in 1..Len(row) : row[j][1] \notin SysCols}}

\* the records the target held when run() was called: the first run of a
\* behaviour is called on a database without the table, later runs find the
\* target as table0 has it
TargetBefore == IF runs = 1 THEN <<>> ELSE table0

\* positions of the currently valid records of a key
Current(tbl, key) ==
    {i \in 1..Len(tbl) : _make_search_tuple(tbl[i]) = key /\ EndOf(tbl[i]) = enddate}

\* positions of the records this run has inserted for a key
Inserted(key) ==
    {i \in (Len(table0) + 1)..Len(table) : _make_search_tuple(table[i]) = key}

\* positions of the source rows of a key
RowsOf(key) == {i \in 1..Len(source) : _make_search_tuple(source[i]) = key}

\* ids handed to _set_as_obsolete in this run
ClosedIds == UNION {{closes[c][j] : j \in 1..Len(closes[c])} : c \in 1..Len(closes)}

\* the stored record the cache build kept for a key
Cached(key) == table0[Get(cache0, key)]

\* keys with a source row classified Modified
ModifiedKeys ==
    {_make_search_tuple(source[i]) : i \in {j \in 1..Len(source) : classes[j] = "Modified"}}

RECURSIVE Spaces(_)
Spaces(n) == IF n = 0 THEN "" ELSE " " \o Spaces(n - 1)


\* two values that differ at most in trailing whitespace
SameUpToTrailingSpace(v, w) ==
    /\ v.t = w.t /\ v.n = w.n
    /\ \E n \in 0..MaxPad, m \in 0..MaxPad : v.s \o Spaces(n) = w.s \o Spaces(m)

\* two rows with the same non-system columns whose values differ at most in
\* trailing whitespace, whatever the column order
SameUpToFormatting(r1, r2) ==
    /\ {p[1] : p \in Payload(r1)} = {p[1] : p \in Payload(r2)}
    /\ \A p \in Payload(r1) : SameUpToTrailingSpace(p[2], Get(r2, p[1]))

(* ---- C1 --------------------------------------------------------------- *)
\* C1: after any run, every natural key has at most one stored record with
\* SysEndDate equal to the sentinel end date.
C1_AtMostOneCurrentAfterRun ==
    pc = "done" => \A key \in SearchTuples : Cardinality(Current(table, key)) <= 1

(* ---- C2 --------------------------------------------------------------- *)
\* C2: for every natural key absent from the cache that occurs in the source,
\* the run inserts exactly one record, with SysStartDate = asof and
\* SysEndDate = sentinel, and closes no record of the key.
C2_NewKeyInsertedOnce ==
    pc = "done" =>
        \A key \in SearchTuples :
            (~Has(cache0, key) /\ RowsOf(key) # {}) =>
                /\ Cardinality(Inserted(key)) = 1
                /\ \A i \in Inserted(key) :
                      StartOf(table[i]) = AsofDate(asof) /\ EndOf(table[i]) = enddate
                /\ \A id \in ClosedIds : _make_search_tuple(table[id]) # key

(* ---- C3 --------------------------------------------------------------- *)
\* C3: for every natural key in the cache whose source row differs from the
\* stored current record in the value of a non-system column, the run closes
\* the old record with asof and inserts exactly one new record with
\* SysStartDate = asof and SysEndDate = sentinel.  The claim's case is taken
\* in its plainest form: one source row for the key, one current record.
C3_ChangeDetected ==
    pc = "done" =>
        \A key \in SearchTuples :
            (/\ Has(cache0, key)
             /\ Cardinality(RowsOf(key)) = 1
             /\ Current(table0, key) = {Get(cache0, key)}
             /\ \A i \in RowsOf(key) : Payload(source[i]) # Payload(Cached(key)))
            => /\ EndOf(table[Get(cache0, key)]) = AsofDate(asof)
               /\ Cardinality(Inserted(key)) = 1
               /\ \A i \in Inserted(key) :
                     StartOf(table[i]) = AsofDate(asof) /\ EndOf(table[i]) = enddate

(* ---- C4 --------------------------------------------------------------- *)
\* C4: with obsolete_deleted_rows enabled, the cached record of every key
\* that is in the cache and in no source row of the run has SysEndDate = asof
\* after the run, and its id was handed to the close update.
C4_UnseenKeyClosed ==
    (pc = "done" /\ obsolete_deleted_rows) =>
        \A key \in SearchTuples :
            (Has(cache0, key) /\ RowsOf(key) = {}) =>
                /\ EndOf(table[Get(cache0, key)]) = AsofDate(asof)
                /\ Get(cache0, key) \in ClosedIds

\* a run with the flag enabled has closed the current record of a key that
\* no source row carried, while another key was in the source
C4_Witness ==
    /\ pc = "done" /\ obsolete_deleted_rows
    /\ source # <<>>
    /\ \E key \in SearchTuples :
          /\ Has(cache0, key) /\ RowsOf(key) = {}
          /\ EndOf(Cached(key)) = enddate
          /\ EndOf(table[Get(cache0, key)]) = AsofDate(asof)

(* ---- C5 --------------------------------------------------------------- *)
\* C5: with obsolete_deleted_rows disabled the run closes exactly the cached
\* records of the keys classified Modified: the record of a cached key absent
\* from the source keeps its SysEndDate, and the old record of every Modified
\* key has SysEndDate = asof.
C5_OnlyModifiedClosed ==
    (pc = "done" /\ ~obsolete_deleted_rows) =>
        /\ ClosedIds = {Get(cache0, key) : key \in ModifiedKeys}
        /\ \A key \in SearchTuples :
              (Has(cache0, key) /\ RowsOf(key) = {}) =>
                  EndOf(table[Get(cache0, key)]) = EndOf(Cached(key))
        /\ \A key \in ModifiedKeys : EndOf(table[Get(cache0, key)]) = AsofDate(asof)

\* a run with the flag disabled has closed the record of a Modified key and
\* left open the current record of a key the source did not carry
C5_Witness ==
    /\ pc = "done" /\ ~obsolete_deleted_rows
    /\ \E key \in ModifiedKeys :
          EndOf(Cached(key)) = enddate /\ EndOf(table[Get(cache0, key)]) = AsofDate(asof)
    /\ \E key \in SearchTuples :
          /\ Has(cache0, key) /\ RowsOf(key) = {}
          /\ EndOf(table[Get(cache0, key)]) = enddate

(* ---- C6 --------------------------------------------------------------- *)
\* C6: a second run with the same source rows and the same asof, on the
\* target the first run left, issues no insert and no close, classifies every
\* row Unchanged and leaves the target as it was.  The source is taken with
\* pairwise distinct natural keys.
C6_SecondRunIsNoOp ==
    (pc = "done" /\ replay /\ \A key \in SearchTuples : Cardinality(RowsOf(key)) <= 1) =>
        /\ batches = <<>>
        /\ closes = <<>>
        /\ \A i \in 1..Len(classes) : classes[i] = "Unchanged"
        /\ table = table0

(* ---- C7 --------------------------------------------------------------- *)
\* C7 as claimed: a source row that differs from the stored record of its key
\* only in column order or in trailing whitespace of a value is not
\* classified Modified.
C7_FormattingIsNoOp ==
    \A i \in 1..Len(source) :
        LET key == _make_search_tuple(source[i])
        IN (Has(cache0, key) /\ SameUpToFormatting(source[i], Cached(key)))
               => classes[i] # "Modified"

\* rows of the same payload as `row` that wait for an insert or were inserted
Queued(row) ==
    {r \in UNION ({{new_rows[j] : j \in 1..Len(new_rows)},
                   {modified_rows[j] : j \in 1..Len(modified_rows)}}
                  \cup {{batches[b][j] : j \in 1..Len(batches[b])} : b \in 1..Len(batches)}) :
        Payload(r) = Payload(row)}

\* C7 as amended: a source row that has the payload of the stored record the
\* cache holds for its key, in whatever column order, is classified Unchanged:
\* the row is queued for no insert, and when it is the only source row of its
\* key no record is inserted for the key and the cached id is not queued for
\* closing.
C7_ColumnOrderIsNoOp ==
    \A i \in 1..Len(source) :
        LET key == _make_search_tuple(source[i])
        IN (Has(cache0, key) /\ Payload(source[i]) = Payload(Cached(key)))
               => /\ classes[i] = "Unchanged"
                  /\ Queued(source[i]) = {}
                  /\ Cardinality(RowsOf(key)) = 1 =>
                        /\ Inserted(key) = {}
                        /\ \A j \in 1..Len(obsolete_ids) : obsolete_ids[j] # Get(cache0, key)

\* a row with the stored payload arrived in the input's column order, which is
\* not the order of the stored row, and the run is over
C7_Witness ==
    /\ pc = "done"
    /\ \E i \in 1..Len(source) :
          LET key == _make_search_tuple(source[i])
          IN /\ Has(cache0, key)
             /\ Payload(source[i]) = Payload(Cached(key))
             /\ keys(source[i]) # SelectSeq(keys(Cached(key)), LAMBDA c : c \notin SysCols)
             /\ classes[i] = "Unchanged"

(* ---- C8 --------------------------------------------------------------- *)
\* C8: _hash gives the same digest to two rows that have the same non-system
\* columns with the same values, whatever the column order of the rows and
\* whatever system columns they carry.
C8_HashIgnoresOrderAndSystemColumns ==
    (hdig1 # <<>> /\ hdig2 # <<>> /\ Payload(hrow1) = Payload(hrow2)) => hdig1 = hdig2

\* both rows are hashed; they have the same payload, another column order and
\* other system columns
C8_Witness ==
    /\ hdig1 # <<>> /\ hdig2 # <<>>
    /\ Payload(hrow1) = Payload(hrow2)
    /\ SelectSeq(keys(hrow1), LAMBDA c : c \notin SysCols)
         # SelectSeq(keys(hrow2), LAMBDA c : c \notin SysCols)
    /\ Has(hrow1, "id") /\ ~Has(hrow2, "id")
    /\ hdig1 = hdig2

(* ---- C9 --------------------------------------------------------------- *)
\* C9: after the cache build the cache has an entry for a key exactly when the
\* target holds a record of the key with SysEndDate = sentinel, and the entry
\* carries the id and the digest of that record.
C9_CacheIsCurrentSlice ==
    (pc = "rows" /\ source = <<>>) =>
        \A key \in SearchTuples :
            /\ Has(idcache, key) <=> Current(table, key) # {}
            /\ Has(keycache, key) <=> Current(table, key) # {}
            /\ Has(idcache, key) =>
                  /\ Get(idcache, key) \in Current(table, key)
                  /\ Get(keycache, key) = _hash(table[Get(idcache, key)])

(* ---- C10 -------------------------------------------------------------- *)
\* keys with two currently valid records in the target the run started on
DuplicateCurrent == {key \in SearchTuples : Cardinality(Current(table0, key)) >= 2}

\* C10: when the target holds two currently valid records of one key the
\* cache build fails, so the run never gets past it and issues no insert and
\* no close.
C10_DuplicateAborts ==
    DuplicateCurrent # {} => (pc = "new" /\ batches = <<>> /\ closes = <<>>)

(* ---- C11 -------------------------------------------------------------- *)
\* C11: a source row without the natural-key column stops the run at that
\* row with an error: the row is the last one the run took from the source
\* and it is recorded as an error, not passed over; the sweep and the close
\* update are not reached, and every record the target held at the start of
\* the run keeps its SysEndDate.
C11_MalformedRowStopsRun ==
    err = "key" =>
        /\ pc = "failed"
        /\ ~Has(source[Len(source)], "k")
        /\ classes[Len(classes)] = "KeyError"
        /\ \A i \in 1..(Len(source) - 1) : Has(source[i], "k")
        /\ closes = <<>>
        /\ \A i \in 1..Len(table0) :
              i <= Len(table) /\ EndOf(table[i]) = EndOf(table0[i])

\* with the flag enabled a run has classified a row, then met a row without
\* the key column, while the cache held a current record of a key that no
\* row of the source carried
C11_Witness ==
    /\ err = "key" /\ pc = "failed" /\ obsolete_deleted_rows
    /\ Len(source) >= 2
    /\ \E key \in SearchTuples :
          /\ Has(cache0, key)
          /\ EndOf(Cached(key)) = enddate
          /\ \A i \in 1..(Len(source) - 1) : _make_search_tuple(source[i]) # key
          /\ EndOf(table[Get(cache0, key)]) = enddate

(* ---- C12 -------------------------------------------------------------- *)
\* positions of the rows handed to the sink: batch number, place in the batch
BatchSlots ==
    UNION {{<<b, j>> : j \in 1..Len(batches[b])} : b \in 1..Len(batches)}

\* positions of the source rows classified New or Modified
Changed == {i \in 1..Len(classes) : classes[i] \in {"New", "Modified"}}

\* C12: the phases of a run are in strict order: before the cache build has
\* finished no source row is classified and nothing is written; the sweep and
\* the close update are reached only with the source drained, every row
\* classified and both queues flushed; the close update is issued at most
\* once in a run and nothing is classified or inserted after it.
C12_PhasesInOrder ==
    /\ pc = "new" =>
          source = <<>> /\ classes = <<>> /\ batches = <<>> /\ closes = <<>>
    /\ pc \in {"sweep", "close", "touch", "done"} =>
          /\ Len(classes) = Len(source)
          /\ replay => source = prevsource
          /\ new_rows = <<>> /\ modified_rows = <<>>
          /\ Cardinality(BatchSlots) = Cardinality(Changed)
    /\ Len(closes) <= 1
    /\ closes # <<>> => pc \in {"touch", "done"}

\* a run has classified two rows or more, flushed an insert batch in the loop
\* and another at the end of the stream, and then issued its close update
C12_Witness ==
    /\ pc = "touch"
    /\ Len(source) >= 2
    /\ Len(batches) >= 2
    /\ Len(closes) = 1

(* ---- C13 -------------------------------------------------------------- *)
\* the row as _log_changes queues it: with the system dates of the run
Stamped(row0) ==
    Put(Put(row0, "SysStartDate", PyDateV(AsofDate(asof))),
        "SysEndDate", PyDateV(enddate))

\* the rows that wait in one of the two queues
Pending == {<<"new", j>> : j \in 1..Len(new_rows)}
               \cup {<<"modified", j>> : j \in 1..Len(modified_rows)}

PendingRow(q) == IF q[1] = "new" THEN new_rows[q[2]] ELSE modified_rows[q[2]]

\* C13: every row classified New or Modified is in exactly one place: in one
\* insert batch or, while the stream lasts, in a queue (as many copies of a
\* row are batched or queued as the source has carried, none lost, none
\* twice); every batch has between 1 and chunksize rows and every batched
\* row is a record of the target; a queue never stays at chunksize after a
\* row, and after the end of the stream both queues are empty.
C13_EachChangeInOneBatch ==
    /\ \A i \in Changed :
          Cardinality({s \in BatchSlots : batches[s[1]][s[2]] = Stamped(source[i])})
            + Cardinality({q \in Pending : PendingRow(q) = Stamped(source[i])})
          = Cardinality({j \in Changed : source[j] = source[i]})
    /\ Cardinality(BatchSlots) + Cardinality(Pending) = Cardinality(Changed)
    /\ \A b \in 1..Len(batches) :
          Len(batches[b]) >= 1 /\ Len(batches[b]) <= ChunkSize
    /\ Len(table) = Len(table0) + Cardinality(BatchSlots)
    /\ pc = "rows" => Len(new_rows) < ChunkSize /\ Len(modified_rows) < ChunkSize
    /\ pc \in {"sweep", "close", "touch", "done"} =>
          new_rows = <<>> /\ modified_rows = <<>>

\* a run has flushed a full batch inside the loop and a shorter remainder at
\* the end of the stream
C13_Witness ==
    /\ pc = "sweep"
    /\ Len(batches) >= 2
    /\ Len(batches[1]) = ChunkSize
    /\ Len(batches[Len(batches)]) < ChunkSize

(* ---- C14 -------------------------------------------------------------- *)
\* C14 as claimed: every record that a finished run has added to the target
\* has SysStartDate = asof of the run.
C14_InsertedCarryAsof ==
    pc = "done" =>
        \A i \in (Len(TargetBefore) + 1)..Len(table) : StartOf(table[i]) = AsofDate(asof)

\* C14 as amended: every record a run has inserted for a source row has
\* SysStartDate = asof of the run (and the sentinel as SysEndDate); every
\* record the run has closed has SysEndDate = the same asof; the run writes
\* no other date: a record the run's transaction found in the target, the
\* special row of create_table included, keeps its SysStartDate, and its
\* SysEndDate is either unchanged or the asof written by the close update.
C14_OneAsofPerRun ==
    /\ \A i \in (Len(table0) + 1)..Len(table) :
          StartOf(table[i]) = AsofDate(asof) /\ EndOf(table[i]) = enddate
    /\ \A id \in ClosedIds : EndOf(table[id]) = AsofDate(asof)
    /\ \A i \in 1..Len(table0) :
          /\ StartOf(table[i]) = StartOf(table0[i])
          /\ EndOf(table[i]) # EndOf(table0[i]) =>
                EndOf(table[i]) = AsofDate(asof) /\ i \in ClosedIds

\* a run on a later asof than the run before it has inserted a record and
\* closed a record that the earlier run had inserted
C14_Witness ==
    /\ pc = "done"
    /\ Len(table) > Len(table0)
    /\ \E id \in ClosedIds :
          /\ StartOf(table0[id]) # AsofDate(asof)
          /\ EndOf(table0[id]) = enddate
          /\ EndOf(table[id]) = AsofDate(asof)

(* ---- C15 -------------------------------------------------------------- *)
\* the last source row of a key
LastRowOf(key) == source[CHOOSE i \in RowsOf(key) : \A j \in RowsOf(key) : j <= i]

\* C15: when the source of a run carries two rows of one natural key, only
\* the later row is the insert of the key: every row of the key that is
\* queued or has been handed to the sink is the last row the source has
\* carried for the key, and every record the run has inserted for the key
\* has the payload of that row.
C15_SecondRowWins ==
    \A key \in SearchTuples :
        Cardinality(RowsOf(key)) >= 2 =>
            /\ \A q \in Pending :
                  _make_search_tuple(PendingRow(q)) = key =>
                      PendingRow(q) = Stamped(LastRowOf(key))
            /\ \A s \in BatchSlots :
                  _make_search_tuple(batches[s[1]][s[2]]) = key =>
                      batches[s[1]][s[2]] = Stamped(LastRowOf(key))
            /\ \A i \in Inserted(key) :
                  Payload(table[i]) = Payload(LastRowOf(key))

(* ---- C16 -------------------------------------------------------------- *)
\* C16: history is never destroyed: no step removes a record from the
\* target, and a record that is closed (SysEndDate other than the sentinel)
\* keeps its SysEndDate from then on.
C16_ClosedStaysClosed ==
    [][/\ Len(table') >= Len(table)
       /\ \A i \in 1..Len(table) :
             EndOf(table[i]) # enddate => EndOf(table'[i]) = EndOf(table[i])]_vars

(* ---- C17 -------------------------------------------------------------- *)
\* C17 as claimed: a run that an error has ended (in the classification of a
\* row, in an insert flush or in the close update) leaves the target with
\* exactly the records it held before the run.
C17_FailedRunLeavesTarget ==
    pc = "failed" => table = TargetBefore

\* C17 as amended: a run that an error has ended leaves the target exactly
\* as the run's transaction found it, whatever batches it had flushed before
\* the error; what create_table has committed before the transaction, the
\* table and its special row, stays.
C17_RolledBackToBegin ==
    pc = "failed" => table = table0

\* the close update of a run has failed after the run had flushed insert
\* batches into a target that held records of an earlier run
C17_Witness ==
    /\ pc = "failed" /\ err = "close"
    /\ batches # <<>>
    /\ Len(table0) >= 2
    /\ table = table0

(* ---- C18 -------------------------------------------------------------- *)
\* C18: an error of the sink in an insert flush or in the close update leaves
\* run(): the run is over without output.touch(), no close update has been
\* issued, the batch that failed has not been handed to the sink again (its
\* rows still sit in the queue, and every changed row is either in an earlier
\* batch or in a queue), and after a failed close update nothing is queued.
C18_SinkErrorPropagates ==
    err \in {"insert", "close"} =>
        /\ pc = "failed"
        /\ closes = <<>>
        /\ Cardinality(BatchSlots) + Cardinality(Pending) = Cardinality(Changed)
        /\ err = "insert" => new_rows # <<>> \/ modified_rows # <<>>
        /\ err = "close" =>
              obsolete_ids # <<>> /\ new_rows = <<>> /\ modified_rows = <<>>

\* an insert flush has failed in a run that had another batch go through
\* before it
C18_Witness ==
    /\ err = "insert" /\ pc = "failed"
    /\ batches # <<>>
    /\ new_rows # <<>> \/ modified_rows # <<>>

(* ---- C19 -------------------------------------------------------------- *)
\* C19: every run starts with an empty cache, an empty seen-set and an empty
\* list of ids to close, also the second run() of one task object.
C19_RunStartsEmpty ==
    pc = "new" =>
        /\ keycache = <<>> /\ idcache = <<>>
        /\ seenkeys = <<>>
        /\ obsolete_ids = <<>>

(* ---- C20 -------------------------------------------------------------- *)
\* C20: at every moment, inside a run as well as between runs, every natural
\* key has at most one record with SysEndDate = sentinel (stated for runs
\* whose source carries every key once, on a target that had at most one
\* current record per key when the run began).
C20_AtMostOneCurrentAlways ==
    (/\ \A key \in SearchTuples : Cardinality(RowsOf(key)) <= 1
     /\ \A key \in SearchTuples : Cardinality(Current(table0, key)) <= 1) =>
        \A key \in SearchTuples : Cardinality(Current(table, key)) <= 1

(* ---- C21 -------------------------------------------------------------- *)
\* C21: when the list of ids to close is empty after the sweep, the run
\* issues no close update: nothing is handed to _set_as_obsolete, every
\* record the target held at the start of the run is as it was, the close
\* step raises nothing and the run goes on to output.touch().
C21_EmptyCloseListNoUpdate ==
    /\ (pc \in {"touch", "done"} /\ obsolete_ids = <<>>) =>
          /\ closes = <<>>
          /\ err = "none"
          /\ \A i \in 1..Len(table0) : table[i] = table0[i]
    /\ err = "close" => obsolete_ids # <<>>

\* with the flag disabled a run on a target with records of an earlier run
\* has completed with an empty list of ids: it has found a cached key
\* unchanged and none modified
C21_Witness ==
    /\ pc = "done" /\ ~obsolete_deleted_rows
    /\ obsolete_ids = <<>>
    /\ Len(cache0) >= 2
    /\ \E i \in 1..Len(source) : classes[i] = "Unchanged"
    /\ closes = <<>>

(* ---- C22 -------------------------------------------------------------- *)
\* C22: when pandasio.to_sql has returned, every row of the frame is in the
\* target table exactly once, for a frame of at most min_length rows as for
\* a longer one.
C22_EachRowWrittenOnce ==
    tpc = "returned" => \A i \in 1..df_len : RowCount(writes, i) = 1

(* ---- C23 -------------------------------------------------------------- *)
\* C23: after set(name, **data) the entry of name has the given fields with
\* the given values and, if the entry existed, its other fields as before
\* and no further field (a new entry has exactly the given fields); every
\* other entry is as before; the keychain is dirty, and a save() that finds
\* it dirty writes the entries to the file.
C23_SetUpdatesGivenFields ==
    /\ kc_call.op = "set" =>
          LET name == kc_call.name
              data == kc_call.data
              old == IF name \in DOMAIN kc_before THEN kc_before[name] ELSE <<>>
          IN /\ name \in DOMAIN _entries
             /\ DOMAIN _entries[name] = DOMAIN old \cup DOMAIN data
             /\ \A f \in DOMAIN data : _entries[name][f] = data[f]
             /\ \A f \in DOMAIN old \ DOMAIN data : _entries[name][f] = old[f]
             /\ DOMAIN _entries \ {name} = DOMAIN kc_before \ {name}
             /\ \A n \in DOMAIN kc_before \ {name} : _entries[n] = kc_before[n]
             /\ dirty
    /\ (kc_call.op = "save" /\ dirty) => disk = Dumped(_entries)

\* set has changed one field of an entry that had two, next to another entry
C23_Witness ==
    /\ kc_call.op = "set"
    /\ kc_call.name \in DOMAIN kc_before
    /\ DOMAIN kc_before \ {kc_call.name} # {}
    /\ \E f \in DOMAIN kc_call.data : 
          /\ f \in DOMAIN kc_before[kc_call.name]
          /\ kc_before[kc_call.name][f] # kc_call.data[f]
    /\ \E f \in DOMAIN kc_before[kc_call.name] : f \notin DOMAIN kc_call.data

(* ---- C24 -------------------------------------------------------------- *)
\* which occurrence of its value the element at position i of the list is
Occurrence(list, i) == Cardinality({j \in 1..i : list[j] = list[i]})

\* C24: the list uniquify returns has the length of its argument, keeps the
\* first occurrence of each value, has 'v_k' in the place of the k-th
\* occurrence of v for k >= 2, and has no value twice.
C24_UniquifyDistinct ==
    (uq_seen # <<>> /\ Len(newvalues) = Len(values)) =>
        /\ \A i \in 1..Len(values) :
              newvalues[i] = IF Occurrence(values, i) = 1 THEN values[i]
                             ELSE format(values[i], Occurrence(values, i))
        /\ \A i, j \in 1..Len(newvalues) : i # j => newvalues[i] # newvalues[j]

(* ---- C25 -------------------------------------------------------------- *)
\* C25: after a run with obsolete_deleted_rows enabled whose source carries
\* every natural key once, the currently valid records are the source rows:
\* the set of their payloads (natural key included) is the set of the
\* payloads of the source rows (stated for a target that had at most one
\* current record per key when the run began).
C25_CurrentIsSource ==
    (/\ pc = "done" /\ obsolete_deleted_rows
     /\ \A key \in SearchTuples : Cardinality(RowsOf(key)) <= 1
     /\ \A key \in SearchTuples : Cardinality(Current(table0, key)) <= 1) =>
        {Payload(table[i]) : i \in {j \in 1..Len(table) : EndOf(table[j]) = enddate}}
            = {Payload(source[i]) : i \in 1..Len(source)}

(* ---- C26 -------------------------------------------------------------- *)
\* keys that had records when the run began, all of them closed
DeletedKeys ==
    {key \in SearchTuples :
        /\ \E i \in 1..Len(table0) : _make_search_tuple(table0[i]) = key
        /\ Current(table0, key) = {}}

\* C26: a source row of a key all of whose stored records are closed is
\* classified New, and the run that carries the key once has inserted exactly
\* one record for it, with SysStartDate = asof and SysEndDate = sentinel.
C26_ReturningKeyIsNew ==
    \A i \in 1..Len(source) :
        LET key == _make_search_tuple(source[i])
        IN (key \in DeletedKeys /\ Cardinality(RowsOf(key)) = 1) =>
              /\ classes[i] = "New"
              /\ pc = "done" =>
                    /\ Cardinality(Inserted(key)) = 1
                    /\ \A j \in Inserted(key) :
                          /\ StartOf(table[j]) = AsofDate(asof)
                          /\ EndOf(table[j]) = enddate

(* ---- C27 -------------------------------------------------------------- *)
\* the ids in obsolete_ids
ObsoleteIds == {obsolete_ids[j] : j \in 1..Len(obsolete_ids)}

\* cached ids of the keys no source row of this run has carried
UnseenIds == {Get(cache0, key) : key \in {k \in SearchTuples : Has(cache0, k) /\ RowsOf(k) = {}}}

\* C27: until its close update a run leaves every record the target held
\* untouched; the close update gets the ids of obsolete_ids, which are the
\* cached ids of the Modified keys plus, with the flag enabled, the cached
\* ids of the keys never seen; after it the records with these ids differ
\* from what they were in SysEndDate only, which is asof, and every other
\* record the target held is as it was.
C27_OnlyCloseTouchesRecords ==
    /\ pc \in {"rows", "sweep", "close"} =>
          \A i \in 1..Len(table0) : table[i] = table0[i]
    /\ pc \in {"close", "touch", "done"} =>
          ObsoleteIds = {Get(cache0, key) : key \in ModifiedKeys}
                           \cup (IF obsolete_deleted_rows THEN UnseenIds ELSE {})
    /\ pc \in {"touch", "done"} =>
          /\ ClosedIds = ObsoleteIds
          /\ \A i \in 1..Len(table0) :
                table[i] = IF i \in ObsoleteIds
                           THEN Put(table0[i], "SysEndDate", PyDateV(AsofDate(asof)))
                           ELSE table0[i]

\* a run has closed the record of a Modified key and the record of a key it
\* has not seen, and has left the record of a third kind, an unchanged key
\* or a closed record, as it was
C27_Witness ==
    /\ pc = "done"
    /\ ModifiedKeys # {}
    /\ UnseenIds \cap ObsoleteIds # {}
    /\ \E i \in 1..Len(table0) : i \notin ObsoleteIds /\ table[i] = table0[i]

(* ---- C28 -------------------------------------------------------------- *)
\* cached keys all of whose source rows in this run are Unchanged
UnchangedKeys ==
    {key \in SearchTuples :
        /\ RowsOf(key) # {}
        /\ \A i \in RowsOf(key) : classes[i] = "Unchanged"}

\* C28: for a cached key whose source row hashes to the cached digest the
\* run does nothing but record the key as seen: no row of the key is queued
\* or inserted, the cached id is in no close update, and the cached record
\* is as it was (open if it was open, with the same id), with the flag
\* enabled as with the flag disabled.
C28_UnchangedIsNoOp ==
    \A key \in UnchangedKeys :
        /\ Has(cache0, key)
        /\ Has(seenkeys, key) /\ Get(seenkeys, key) = Get(cache0, key)
        /\ Inserted(key) = {}
        /\ \A q \in Pending : _make_search_tuple(PendingRow(q)) # key
        /\ Get(cache0, key) \notin ObsoleteIds \cup ClosedIds
        /\ table[Get(cache0, key)] = table0[Get(cache0, key)]

\* with the flag enabled a run has found a key unchanged, its record open,
\* and has closed the record of another key
C28_Witness ==
    /\ pc = "done" /\ obsolete_deleted_rows
    /\ closes # <<>>
    /\ \E key \in UnchangedKeys :
          /\ EndOf(table[Get(cache0, key)]) = enddate
          /\ IdOf(table[Get(cache0, key)]) = Get(cache0, key)

(* ---- C29 -------------------------------------------------------------- *)
\* the step has taken a row from the source and queued it in new_rows
QueuedNew == Len(classes') > Len(classes) /\ classes'[Len(classes')] = "New"

\* the step has taken a row from the source and queued it in modified_rows
QueuedModified == Len(classes') > Len(classes) /\ classes'[Len(classes')] = "Modified"

\* rows held in the two queues right after the row of this step was queued,
\* before the length tests that flush
HeldNew == Len(new_rows) + (IF QueuedNew THEN 1 ELSE 0)
HeldModified == Len(modified_rows) + (IF QueuedModified THEN 1 ELSE 0)

\* C29 as stated: at every point of the row stream at most chunksize rows
\* are held pending insertion, the two queues taken together.
C29_PendingWithinChunk ==
    [][pc = "rows" => HeldNew + HeldModified <= ChunkSize]_vars

\* C29 amended: each of the two queues holds at most chunksize rows at every
\* point of the row stream and fewer than chunksize once the row is done;
\* the two together hold at most 2 * chunksize - 1 rows.
C29_EachQueueWithinChunk ==
    [][pc = "rows" =>
          /\ HeldNew <= ChunkSize
          /\ HeldModified <= ChunkSize
          /\ HeldNew + HeldModified <= 2 * ChunkSize - 1
          /\ Len(new_rows') < ChunkSize
          /\ Len(modified_rows') < ChunkSize]_vars

\* one queue has been flushed at chunksize while the other held a row: the
\* run has a batch of chunksize rows and a row still queued
C29_Witness ==
    /\ pc = "rows"
    /\ \E b \in 1..Len(batches) : Len(batches[b]) = ChunkSize
    /\ Len(new_rows) + Len(modified_rows) = ChunkSize - 1
    /\ \E i \in 1..Len(classes) : classes[i] = "New"
    /\ \E i \in 1..Len(classes) : classes[i] = "Modified"

(* ---- C30 -------------------------------------------------------------- *)
\* positions of the stored records of a key
RecordsOf(key) == {i \in 1..Len(table) : _make_search_tuple(table[i]) = key}

\* C30: after every run the validity intervals [SysStartDate, SysEndDate) of
\* the records of one natural key do not overlap, no record ends before it
\* starts, and the record a run has closed for a Modified key ends on the
\* SysStartDate of the version the run has inserted for the key.
C30_IntervalsDisjoint ==
    pc = "done" =>
        /\ \A i \in 1..Len(table) : StartOf(table[i]) <= EndOf(table[i])
        /\ \A key \in SearchTuples : \A i, j \in RecordsOf(key) :
              i # j => \/ EndOf(table[i]) <= StartOf(table[j])
                       \/ EndOf(table[j]) <= StartOf(table[i])
        /\ \A key \in ModifiedKeys : \A j \in Inserted(key) :
              EndOf(table[Get(cache0, key)]) = StartOf(table[j])

(* ---- C31 -------------------------------------------------------------- *)
\* the names of the non-system columns of a row
PayloadCols(row) == {p[1] : p \in Payload(row)}

\* every non-system value of the row is a str
AllStr(row) == \A p \in Payload(row) : p[2].t = "str"

\* C31: two rows with the same non-system column names whose values differ
\* in at least one column never feed the same byte stream to the digest.
\* The rows are taken with str values only, as in the claim's example, so
\* that two values are different exactly when their texts are.
C31_StreamInjective ==
    (/\ hdig1 # <<>> /\ hdig2 # <<>>
     /\ PayloadCols(hrow1) = PayloadCols(hrow2)
     /\ AllStr(hrow1) /\ AllStr(hrow2)
     /\ Payload(hrow1) # Payload(hrow2))
    => hdig1[2] # hdig2[2]

(* ---- the luigi variant: src/luigi/ttable.py --------------------------- *)
\* The variant's _make_search_tuple, _insert, _set_as_obsolete and its loop
\* over idcache.items() have the text of src/ttable.py and are modelled by
\* the same operators.  Each run is made by a new task in a process of its
\* own.

\* the non-system columns of a column list, in the list's order
NonSystem(cols) == SelectSeq(cols, LAMBDA c : c \notin SysCols)

\* the orders in which iterating set(row.keys()) can yield the non-system
\* columns of a row: the order of a set of str is the order of the hash
\* table's slots, which the language leaves open
IterOrders(cols) ==
    LET ns == NonSystem(cols)
    IN {p \in [1..Len(ns) -> {ns[i] : i \in 1..Len(ns)}] :
           \A i, j \in 1..Len(ns) : p[i] = p[j] => i = j}

\* the orders a _hash call of this process can meet: sets built from the
\* same column list are iterated in the same order every time
SetIter(cols) ==
    IF Has(iter_order, cols) THEN {Get(iter_order, cols)} ELSE IterOrders(cols)

\* _hash of the variant, the iteration order of set(row.keys()) being `order`
luigi_hash(row, order) ==
    LET vals == [i \in 1..Len(order) |-> Get(row, order[i])]
    IN hexdigest(update("", vals))

\* select([table_bound]).where(table_bound.c.SysEndDate == self.enddate):
\* the currently valid records, in whatever order the database returns them
QueryCurrent(tbl) ==
    Unordered(SelectSeq(tbl, LAMBDA row : Get(row, "SysEndDate") = PyDateV(enddate)))

RECURSIVE LuigiScanKeys(_, _, _)
\* the loop of the variant's _prefill_cache on self.keycache
LuigiScanKeys(cache, rows, order) ==
    IF rows = <<>> THEN cache
    ELSE LET row == Head(rows)
         IN LuigiScanKeys(Put(cache, _make_search_tuple(row), luigi_hash(row, order)),
                          Tail(rows), order)

\* the columns of a row of all_rows: the target's non-system columns
luigicols == NonSystem(TableCols)

\* the columns of a row of all_rows once _log_changes has stamped it
stampedcols == luigicols \o <<"SysStartDate", "SysEndDate">>

LuigiInit ==
    /\ table = <<>>
    /\ has_table = FALSE
    /\ keycache = <<>> /\ idcache = <<>> /\ seenkeys = <<>>
    /\ obsolete_ids = <<>>
    /\ new_rows = <<>> /\ modified_rows = <<>>
    /\ pc = "new"
    /\ asof = 1
    /\ obsolete_deleted_rows \in BOOLEAN
    /\ source = <<>> /\ classes = <<>> /\ batches = <<>> /\ closes = <<>>
    /\ table0 = <<>> /\ cache0 = <<>>
    /\ runs = 1 /\ total = 0
    /\ replay = FALSE
    /\ prevsource = <<>>
    /\ err = "none"
    /\ HashIdle
    /\ LibIdle

\* create_table of the variant: a database without the table gets the table
\* and the special row, committed by create_table's own transaction; a table
\* that is there is reflected and left as it is
luigi_create_table(exists, tbl) ==
    IF exists THEN tbl ELSE Append(tbl, SpecialRow(Len(tbl) + 1))

\* run() of the variant, up to and including self._prefill_cache(conn):
\* create_table, then the cache build over the currently valid records;
\* table0 is the target as the run's transaction finds it
LuigiPrefillCache ==
    /\ pc = "new"
    /\ table' = luigi_create_table(has_table, table)
    /\ has_table' = TRUE
    /\ table0' = table'
    /\ \E order \in SetIter(TableCols), rows \in QueryCurrent(table') :
          /\ keycache' = LuigiScanKeys(keycache, rows, order)
          /\ idcache' = ScanIds(idcache, rows)
          /\ iter_order' = IF rows = <<>> THEN iter_order
                           ELSE Put(iter_order, TableCols, order)
    /\ cache0' = idcache'
    /\ pc' = "rows"
    /\ UNCHANGED <<seenkeys, obsolete_ids, new_rows, modified_rows, asof,
                   obsolete_deleted_rows, source, classes, batches,
                   closes, runs, total, replay, prevsource>>
    /\ UNCHANGED <<hrow1, hrow2, hdig1, hdig2, err, libvars>>

RECURSIVE LuigiLoop(_, _, _)
\* the loop of the variant's _log_changes over the rows of one chunk; st
\* holds new_rows, modified_rows, obsolete_ids, seenkeys and the classes
LuigiLoop(st, rows, order) ==
    IF rows = <<>> THEN st
    ELSE LET row == Put(Put(Head(rows), "SysStartDate", PyDateV(AsofDate(asof))),
                        "SysEndDate", PyDateV(enddate))
             searchtuple == _make_search_tuple(row)
             isnew == ~Has(idcache, searchtuple)
             ismod == ~isnew /\ Get(keycache, searchtuple) # luigi_hash(row, order)
         IN LuigiLoop(
              [new_rows |-> IF isnew THEN Append(st.new_rows, row) ELSE st.new_rows,
               modified_rows |-> IF ismod THEN Append(st.modified_rows, row)
                                 ELSE st.modified_rows,
               obsolete_ids |-> IF ismod
                                THEN Append(st.obsolete_ids, Get(idcache, searchtuple))
                                ELSE st.obsolete_ids,
               seenkeys |-> IF isnew THEN st.seenkeys
                            ELSE Put(st.seenkeys, searchtuple, Get(idcache, searchtuple)),
               classes |-> Append(st.classes, IF isnew THEN "New"
                                              ELSE IF ismod THEN "Modified"
                                              ELSE "Unchanged")],
              Tail(rows), order)

\* run() of the variant: islice takes the next chunk_size rows of the source,
\* fewer when the source ends, and _log_changes handles the chunk and inserts
\* its new rows and its modified rows; after a short chunk the next islice
\* is empty and the while loop ends
LuigiLogChanges ==
    /\ pc = "rows"
    /\ \E n \in 1..ChunkSize :
          /\ total + n <= MaxTotal
          /\ \E chunk \in [1..n -> RowData], order \in SetIter(stampedcols) :
                LET all_rows == [i \in 1..n |-> SrcRow(luigicols, chunk[i])]
                    st == LuigiLoop([new_rows |-> <<>>, modified_rows |-> <<>>,
                                     obsolete_ids |-> obsolete_ids,
                                     seenkeys |-> seenkeys, classes |-> classes],
                                    all_rows, order)
                    table1 == IF st.new_rows # <<>> THEN _insert(table, st.new_rows)
                              ELSE table
                    batches1 == IF st.new_rows # <<>> THEN Append(batches, st.new_rows)
                                ELSE batches
                IN /\ table' = IF st.modified_rows # <<>>
                               THEN _insert(table1, st.modified_rows) ELSE table1
                   /\ batches' = IF st.modified_rows # <<>>
                                 THEN Append(batches1, st.modified_rows) ELSE batches1
                   /\ obsolete_ids' = st.obsolete_ids
                   /\ seenkeys' = st.seenkeys
                   /\ classes' = st.classes
                   /\ source' = source \o all_rows
                   /\ iter_order' =
                        IF \E i \in 1..n : Has(idcache, _make_search_tuple(all_rows[i]))
                        THEN Put(iter_order, stampedcols, order) ELSE iter_order
          /\ total' = total + n
          /\ pc' = IF n < ChunkSize THEN "sweep" ELSE "rows"
    /\ UNCHANGED <<keycache, idcache, new_rows, modified_rows, asof,
                   obsolete_deleted_rows, closes, table0, cache0, runs, replay,
                   prevsource>>
    /\ UNCHANGED <<hrow1, hrow2, hdig1, hdig2, err, libvars>>
    /\ UNCHANGED has_table

\* run() of the variant: islice yields nothing, the while loop ends
LuigiEndOfStream ==
    /\ pc = "rows"
    /\ pc' = "sweep"
    /\ UNCHANGED <<table, has_table, keycache, idcache, seenkeys, obsolete_ids, new_rows,
                   modified_rows, asof, obsolete_deleted_rows, source, classes,
                   batches, closes, table0, cache0, runs, total, replay,
                   prevsource>>
    /\ UNCHANGED <<hashvars, err, libvars>>

\* run() of the variant: the block under `if self.obsolete_deleted_rows:`,
\* which holds the sweep and the call of _set_as_obsolete, then the commit
LuigiClose ==
    /\ pc = "sweep"
    /\ LET ids == IF obsolete_deleted_rows
                  THEN Unseen(obsolete_ids, idcache, seenkeys) ELSE obsolete_ids
           issue == obsolete_deleted_rows /\ ids # <<>>
       IN /\ obsolete_ids' = ids
          /\ table' = IF issue THEN _set_as_obsolete(table, ids, AsofDate(asof))
                      ELSE table
          /\ closes' = IF issue THEN Append(closes, ids) ELSE closes
    /\ pc' = "touch"
    /\ UNCHANGED <<keycache, idcache, seenkeys, new_rows, modified_rows, asof,
                   obsolete_deleted_rows, source, classes, batches, table0,
                   cache0, runs, total, replay, prevsource>>
    /\ UNCHANGED <<hashvars, err, libvars>>
    /\ UNCHANGED has_table

\* run() of the variant: output.touch()
LuigiTouch ==
    /\ pc = "touch"
    /\ pc' = "done"
    /\ UNCHANGED <<table, has_table, keycache, idcache, seenkeys, obsolete_ids, new_rows,
                   modified_rows, asof, obsolete_deleted_rows, source,
                   classes, batches, closes, table0, cache0, runs, total, replay,
                   prevsource>>
    /\ UNCHANGED <<hashvars, err, libvars>>

\* __init__ of the variant for the task of the next run, on the next asof
\* date
LuigiNewTask ==
    /\ pc = "done"
    /\ runs < MaxRuns
    /\ keycache' = <<>> /\ idcache' = <<>> /\ seenkeys' = <<>>
    /\ obsolete_ids' = <<>>
    /\ iter_order' = <<>>
    /\ asof' = asof + 1
    /\ prevsource' = source
    /\ source' = <<>> /\ classes' = <<>> /\ batches' = <<>> /\ closes' = <<>>
    /\ table0' = table
    /\ cache0' = <<>>
    /\ runs' = runs + 1
    /\ pc' = "new"
    /\ UNCHANGED <<table, has_table, new_rows, modified_rows, obsolete_deleted_rows,
                   total, replay, err>>
    /\ UNCHANGED <<hrow1, hrow2, hdig1, hdig2, libvars>>

LuigiNext ==
    \/ LuigiPrefillCache
    \/ LuigiLogChanges
    \/ LuigiEndOfStream
    \/ LuigiClose
    \/ LuigiTouch
    \/ LuigiNewTask

SpecLuigi == LuigiInit /\ [][LuigiNext]_vars

(* ---- C32 -------------------------------------------------------------- *)
\* C32: in the luigi variant, with obsolete_deleted_rows disabled, a finished
\* run has closed the cached record of every Modified key with
\* SysEndDate = asof, and the key has exactly one current record.  The
\* claim's case is taken in its plainest form: the key had one current
\* record when the run began and has one source row, whose payload is not
\* the record's.
C32_LuigiModifiedClosed ==
    (pc = "done" /\ ~obsolete_deleted_rows) =>
        \A key \in ModifiedKeys :
            (/\ Cardinality(Current(table0, key)) = 1
             /\ Cardinality(RowsOf(key)) = 1
             /\ \A i \in RowsOf(key) : Payload(source[i]) # Payload(Cached(key)))
            => /\ EndOf(table[Get(cache0, key)]) = AsofDate(asof)
               /\ Cardinality(Current(table, key)) = 1

(* ---- the luigi variant's _hash on its own ----------------------------- *)
\* a row of all_rows after _log_changes has stamped it on asof date i
LuigiStamped(data, i) ==
    Put(Put(SrcRow(luigicols, data), "SysStartDate", PyDateV(AsofDate(i))),
        "SysEndDate", PyDateV(enddate))

\* the rows _prefill_cache hashes: stored records, as an earlier run inserted them
LuigiStoredRows == {StoredRow(2, LuigiStamped(data, 1)) : data \in RowData}

\* the rows _log_changes hashes: stamped rows of the input
LuigiIncomingRows == {LuigiStamped(data, 2) : data \in RowData}

\* one process hashes a stored row and then a stored or an incoming row
LuigiHashInit ==
    /\ table = <<>>
    /\ has_table = FALSE
    /\ keycache = <<>> /\ idcache = <<>> /\ seenkeys = <<>>
    /\ obsolete_ids = <<>>
    /\ new_rows = <<>> /\ modified_rows = <<>>
    /\ pc = "hash"
    /\ asof = 1
    /\ obsolete_deleted_rows = TRUE
    /\ source = <<>> /\ classes = <<>> /\ batches = <<>> /\ closes = <<>>
    /\ table0 = <<>> /\ cache0 = <<>>
    /\ runs = 0 /\ total = 0
    /\ replay = FALSE
    /\ prevsource = <<>>
    /\ err = "none"
    /\ hrow1 \in LuigiStoredRows
    /\ hrow2 \in LuigiStoredRows \cup LuigiIncomingRows
    /\ hdig1 = <<>> /\ hdig2 = <<>>
    /\ iter_order = <<>>
    /\ LibIdle

LuigiHashFirst ==
    /\ pc = "hash"
    /\ hdig1 = <<>>
    /\ \E order \in SetIter(keys(hrow1)) :
          /\ hdig1' = luigi_hash(hrow1, order)
          /\ iter_order' = Put(iter_order, keys(hrow1), order)
    /\ UNCHANGED <<hrow1, hrow2, hdig2>>
    /\ UNCHANGED <<runvars, err, libvars>>

LuigiHashSecond ==
    /\ pc = "hash"
    /\ hdig2 = <<>>
    /\ \E order \in SetIter(keys(hrow2)) :
          /\ hdig2' = luigi_hash(hrow2, order)
          /\ iter_order' = Put(iter_order, keys(hrow2), order)
    /\ UNCHANGED <<hrow1, hrow2, hdig1>>
    /\ UNCHANGED <<runvars, err, libvars>>

LuigiHashNext == LuigiHashFirst \/ LuigiHashSecond

SpecLuigiHash == LuigiHashInit /\ [][LuigiHashNext]_vars

(* ---- C33 -------------------------------------------------------------- *)
\* C33: in the luigi variant a stored row, which carries id, SysStartDate
\* and SysEndDate, and an incoming row with the same values in the non-system
\* columns get the same digest from _hash, whatever order their column-name
\* sets are iterated in.
C33_LuigiHashFixedOrder ==
    (/\ hdig1 # <<>> /\ hdig2 # <<>>
     /\ Has(hrow1, "id") /\ ~Has(hrow2, "id")
     /\ Payload(hrow1) = Payload(hrow2))
    => hdig1 = hdig2

(* ---- C34 -------------------------------------------------------------- *)
\* the rows of chunk i of np.array_split(df, num_workers)
ChunkRows(i) == array_split(df_len, num_workers, i)

\* x holds the rows of chunk i
IsChunk(x, i) == x.lo = ChunkRows(i)[1] /\ x.hi = ChunkRows(i)[2]

\* how often a worker has called the Task of chunk i; the first entry of
\* writes is the calling process's own write
Executed(i) == Cardinality({j \in 2..Len(writes) : IsChunk(writes[j], i)})

\* the workers that have taken the Task of chunk i from the queue and have
\* not called it to its end
Holders(i) == {w \in 1..num_workers :
                  IsChunk(workers[w], i) /\ workers[w].if_exists # "called"}

\* the workers between the return of their Task and its task_done()
Answering == {w \in 1..num_workers : workers[w].if_exists = "called"}

\* the workers between their pill and its task_done()
Stopping == {w \in 1..num_workers : workers[w] = PillTaken}

\* the positions of the queue at which the Task of chunk i waits
QueuedAt(i) == {j \in 1..Len(job_queue) : IsChunk(job_queue[j], i)}

\* the positions of the queue at which a pill waits
Pills == {j \in 1..Len(job_queue) : job_queue[j] = None}

\* job_queue.join() has returned in the calling process
Joined ==
    \/ tpc = "pills"
    \/ Pills # {}
    \/ \E w \in 1..num_workers : workers[w] \in {PillTaken, Exited}

\* C34: every chunk task put on the job queue goes to one worker and is
\* executed once (it is never with two workers, never executed twice, never
\* both waiting and taken), and when the pills are put every chunk task has
\* been executed and answered by task_done: join() returns when the queue's
\* unfinished tasks are counted down to zero, so that from then on only
\* pills are unfinished.
C34_OneWorkerPerTask ==
    /\ \A i \in 1..num_workers :
          Executed(i) + Cardinality(Holders(i)) + Cardinality(QueuedAt(i)) <= 1
    /\ Joined =>
          /\ \A i \in 1..num_workers : Executed(i) = 1
          /\ Answering = {}
          /\ unfinished = Cardinality(Pills) + Cardinality(Stopping)

\* to_sql has returned from a frame longer than min_length, two workers have
\* executed one chunk each and each has taken its pill
C34_Witness ==
    /\ tpc = "returned"
    /\ df_len > min_length
    /\ num_workers = 2
    /\ Len(writes) = 3
    /\ Executed(1) = 1 /\ Executed(2) = 1
    /\ writes[2].lo > writes[3].lo
    /\ \A w \in 1..num_workers : workers[w] = Exited
    /\ job_queue = <<>> /\ unfinished = 0

(* ---- C35 -------------------------------------------------------------- *)
\* C35: once to_sql has started its workers it returns, and every worker
\* process ends by taking a pill, however the processes are interleaved and
\* whether or not a Task raises in a worker.
C35_ReturnsAndWorkersExit ==
    (tpc = "spawn") ~>
        (tpc = "returned" /\ \A w \in 1..num_workers : workers[w] = Exited)

(* ---- C36 -------------------------------------------------------------- *)
\* what _log_changes makes of a source row when it compares it with the
\* record the cache build kept for the row's key
ClassAtBuild(row0) ==
    LET key == _make_search_tuple(row0)
    IN IF ~Has(cache0, key) THEN "New"
       ELSE IF _hash(row0) # _hash(Cached(key)) THEN "Modified"
       ELSE "Unchanged"

\* C36: from the cache build to the end of the run the caches are what the
\* build made them: idcache is the idcache of the build, and each key's
\* entries are the id and the digest of one record of the key, the one the
\* build scanned last.  Every source row, a second row of a key included,
\* is classified by comparison with that digest, and every key of seenkeys
\* is a key of the cache, with the cache's id.
C36_CacheFixedAfterBuild ==
    pc \in {"rows", "sweep", "close", "touch", "done"} =>
        /\ idcache = cache0
        /\ keys(keycache) = keys(idcache)
        /\ \A key \in SearchTuples :
              Has(idcache, key) =>
                 \E i \in 1..Len(table0) :
                    /\ _make_search_tuple(table0[i]) = key
                    /\ Get(idcache, key) = IdOf(table0[i])
                    /\ Get(keycache, key) = _hash(table0[i])
        /\ \A i \in 1..Len(source) : classes[i] = ClassAtBuild(source[i])
        /\ \A key \in SearchTuples :
              Has(seenkeys, key) =>
                 Has(idcache, key) /\ Get(seenkeys, key) = Get(idcache, key)

\* a finished run has read two rows of a cached key: the first is Modified,
\* and the second, which has the payload of the cached record and not that
\* of the first row, is Unchanged
C36_Witness ==
    /\ pc = "done"
    /\ \E key \in SearchTuples :
          /\ Has(cache0, key)
          /\ \E i, j \in RowsOf(key) :
                /\ i < j
                /\ classes[i] = "Modified"
                /\ classes[j] = "Unchanged"
                /\ Payload(source[j]) = Payload(Cached(key))
                /\ Payload(source[j]) # Payload(source[i])
          /\ idcache = cache0
          /\ Has(seenkeys, key)

====
